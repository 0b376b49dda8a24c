--------------------------- MODULE ModbusDataProofs ----------------------------
(***************************************************************************)
(* Proofs about the contents of messages.  ModbusData: whatever the type,  *)
(* the number of values and the byte order, a write is read back, and a    *)
(* bigEndian write puts the bytes in network order; whatever the string,   *)
(* it is read back up to the first character that is not ASCII.            *)
(* ModbusBits: whatever the table, the address and the number of bits,     *)
(* what is packed is unpacked and nothing else changes.                    *)
(* ModbusCrc: whatever the messages, the tables and the loop over them     *)
(* compute the checksum of the protocol, and no frame is taken with up to  *)
(* three, or with an odd number of, damaged bits.                          *)
(***************************************************************************)
EXTENDS ModbusData, ModbusBits, ModbusCrc, WellFoundedInduction, FiniteSetTheorems, TLAPS

AllWidths == {1, 2, 4, 8, 16}

-----------------------------------------------------------------------------
(***************************************************************************)
(* Places in groups of bytes.                                              *)
(***************************************************************************)
\* Mirroring stays in the group, and undoes itself.
LEMMA MirrorFacts ==
    ASSUME NEW w \in AllWidths, NEW i \in Nat, NEW count \in Nat
    PROVE  /\ Mirror(w, i) \in Nat
           /\ Mirror(w, Mirror(w, i)) = i
           /\ Mirror(w, i) < w * count <=> i < w * count
<1>1. CASE w = 1   BY <1>1 DEF Mirror
<1>2. CASE w = 2   BY <1>2 DEF Mirror
<1>3. CASE w = 4   BY <1>3 DEF Mirror
<1>4. CASE w = 8   BY <1>4 DEF Mirror
<1>5. CASE w = 16  BY <1>5 DEF Mirror
<1>6. QED  BY <1>1, <1>2, <1>3, <1>4, <1>5 DEF AllWidths

\* The byte j of the value k mirrors the byte j from the end.
LEMMA MirrorOfByte ==
    ASSUME NEW w \in AllWidths, NEW k \in Nat, NEW j \in 0 .. w - 1
    PROVE  Mirror(w, k * w + j) = k * w + (w - 1 - j)
<1>1. CASE w = 1   BY <1>1 DEF Mirror
<1>2. CASE w = 2   BY <1>2 DEF Mirror
<1>3. CASE w = 4   BY <1>3 DEF Mirror
<1>4. CASE w = 8   BY <1>4 DEF Mirror
<1>5. CASE w = 16  BY <1>5 DEF Mirror
<1>6. QED  BY <1>1, <1>2, <1>3, <1>4, <1>5 DEF AllWidths

\* The words hold all values, with at most a byte to spare.
LEMMA WordCountFacts ==
    ASSUME NEW w \in AllWidths, NEW count \in Nat
    PROVE  /\ w * count \in Nat /\ WordCount(w, count) \in Nat
           /\ w * count <= 2 * WordCount(w, count)
           /\ (w * count) % 2 = 1 => w * count < 2 * WordCount(w, count)
<1>1. CASE w = 1   BY <1>1 DEF WordCount
<1>2. CASE w = 2   BY <1>2 DEF WordCount
<1>3. CASE w = 4   BY <1>3 DEF WordCount
<1>4. CASE w = 8   BY <1>4 DEF WordCount
<1>5. CASE w = 16  BY <1>5 DEF WordCount
<1>6. QED  BY <1>1, <1>2, <1>3, <1>4, <1>5 DEF AllWidths

-----------------------------------------------------------------------------
(***************************************************************************)
(* Conversions.                                                            *)
(***************************************************************************)
\* Swapping twice changes nothing.
LEMMA ConvertTwice ==
    ASSUME NEW w \in AllWidths, NEW count \in Nat, NEW n \in Nat, NEW mem,
           mem = [i \in 0 .. n - 1 |-> mem[i]], w * count <= n
    PROVE  /\ DOMAIN convertBigEndian(mem, w, count) = 0 .. n - 1
           /\ convertBigEndian(convertBigEndian(mem, w, count), w, count) = mem
<1> DEFINE once == convertBigEndian(mem, w, count)
           twice == convertBigEndian(once, w, count)
<1>1. DOMAIN mem = 0 .. n - 1
      OBVIOUS
<1>2. DOMAIN once = 0 .. n - 1 /\ DOMAIN twice = 0 .. n - 1
      BY <1>1 DEF convertBigEndian
<1>3. ASSUME NEW i \in 0 .. n - 1
      PROVE  twice[i] = mem[i]
  <2>1. /\ Mirror(w, i) \in Nat /\ Mirror(w, Mirror(w, i)) = i
        /\ Mirror(w, i) < w * count <=> i < w * count
        BY MirrorFacts
  <2>2. w * count \in Nat
        BY WordCountFacts
  <2>3. CASE i < w * count
    <3>1. Mirror(w, i) \in 0 .. n - 1
          BY <2>1, <2>2, <2>3
    <3>2. once[Mirror(w, i)] = mem[i]
          BY <1>1, <2>1, <2>3, <3>1 DEF convertBigEndian
    <3>3. QED  BY <1>2, <2>3, <3>2 DEF convertBigEndian
  <2>4. CASE ~(i < w * count)
        BY <1>1, <1>2, <2>4 DEF convertBigEndian
  <2>5. QED  BY <2>3, <2>4
<1>4. twice = [i \in 0 .. n - 1 |-> twice[i]]
      BY <1>2 DEF convertBigEndian
<1>5. QED  BY <1>2, <1>3, <1>4

\* Sending swaps the bytes of every word.
LEMMA WireConverts ==
    ASSUME NEW n \in Nat, NEW mem, mem = [i \in 0 .. 2 * n - 1 |-> mem[i]]
    PROVE  Wire(mem) = convertBigEndian(mem, 2, n)
BY DEF Wire, convertBigEndian

\* The memory a write starts from.
Filled(bytes, w, count) ==
    [i \in 0 .. 2 * WordCount(w, count) - 1 |-> IF i < w * count THEN bytes[i] ELSE 0]

\* What travels: the values, swapped or not, in words that are swapped or not.
LEMMA WhatTravels ==
    ASSUME NEW w \in AllWidths, NEW count \in Nat, NEW e \in Endianness,
           NEW bytes
    PROVE  LET filled == Filled(bytes, w, count)
               words  == WordCount(w, count)
           IN  /\ DOMAIN ToRegisters(bytes, w, count, e) = 0 .. 2 * words - 1
               /\ e = "bigEndian" =>
                     ToRegisters(bytes, w, count, e) = convertBigEndian(filled, w, count)
               /\ e = "littleEndian" =>
                     ToRegisters(bytes, w, count, e) = convertBigEndian(filled, 2, words)
<1> DEFINE filled == Filled(bytes, w, count)
           words  == WordCount(w, count)
           big    == convertBigEndian(filled, w, count)
<1>1. words \in Nat /\ w * count <= 2 * words /\ 2 \in AllWidths
      BY WordCountFacts DEF AllWidths
<1>2. DOMAIN filled = 0 .. 2 * words - 1
      BY DEF Filled
<1>3. filled = [i \in 0 .. 2 * words - 1 |-> filled[i]]
      BY <1>2 DEF Filled
<1>4. big = [i \in 0 .. 2 * words - 1 |-> big[i]]
      BY <1>2 DEF convertBigEndian
<1>5. CASE e = "bigEndian"
  <2>1. ToRegisters(bytes, w, count, e) = Wire(convertBigEndian(big, 2, words))
        BY <1>5 DEF ToRegisters, Filled
  <2>2. convertBigEndian(convertBigEndian(big, 2, words), 2, words) = big
        /\ DOMAIN convertBigEndian(big, 2, words) = 0 .. 2 * words - 1
    <3> HIDE DEF big, words
    <3>1. 2 * words \in Nat
          BY <1>1
    <3>2. QED  BY <1>1, <1>4, <3>1, ConvertTwice
  <2>3. convertBigEndian(big, 2, words)
          = [i \in 0 .. 2 * words - 1 |-> convertBigEndian(big, 2, words)[i]]
        BY <2>2, <1>4 DEF convertBigEndian
  <2>4. ToRegisters(bytes, w, count, e) = big
        BY <1>1, <2>1, <2>2, <2>3, WireConverts
  <2>5. DOMAIN big = 0 .. 2 * words - 1
        BY <1>4
  <2>6. QED  BY <1>5, <2>4, <2>5
<1>6. CASE e = "littleEndian"
  <2>1. ToRegisters(bytes, w, count, e) = Wire(filled)
        BY <1>6 DEF ToRegisters, Filled
  <2>2. Wire(filled) = convertBigEndian(filled, 2, words)
        BY <1>1, <1>3, WireConverts
  <2>3. DOMAIN Wire(filled) = 0 .. 2 * words - 1
        BY <1>2 DEF Wire
  <2>4. QED  BY <1>6, <2>1, <2>2, <2>3
<1>7. QED  BY <1>5, <1>6 DEF Endianness

\* A read undoes a write of the same type, number and byte order.
LEMMA FromTo ==
    ASSUME NEW w \in AllWidths, NEW count \in Nat, NEW e \in Endianness,
           NEW bytes, bytes = [i \in 0 .. w * count - 1 |-> bytes[i]]
    PROVE  FromRegisters(ToRegisters(bytes, w, count, e), w, count, e) = bytes
<1> DEFINE filled == Filled(bytes, w, count)
           words  == WordCount(w, count)
           wire   == ToRegisters(bytes, w, count, e)
<1>1. /\ words \in Nat /\ 2 * words \in Nat /\ w * count <= 2 * words
      /\ w * count \in Nat /\ 2 \in AllWidths /\ 2 * words <= 2 * words
      BY WordCountFacts DEF AllWidths
<1>2. filled = [i \in 0 .. 2 * words - 1 |-> filled[i]]
      BY DEF Filled
<1>3. bytes = [i \in 0 .. w * count - 1 |-> filled[i]]
  <2>1. \A i \in 0 .. w * count - 1 : filled[i] = bytes[i]
        BY <1>1 DEF Filled
  <2>2. QED  BY <2>1
<1>4. DOMAIN wire = 0 .. 2 * words - 1
      BY WhatTravels
<1>5. CASE e = "bigEndian"
  <2>1. wire = convertBigEndian(filled, w, count)
        BY <1>5, WhatTravels
  <2>2. convertBigEndian(wire, w, count) = filled
        BY <1>1, <1>2, <2>1, ConvertTwice
  <2>3. wire = [i \in 0 .. 2 * words - 1 |-> wire[i]]
        BY <1>4, <2>1 DEF convertBigEndian
  <2> HIDE DEF wire, words
  <2>4. Wire(wire) = convertBigEndian(wire, 2, words)
        BY <1>1, <2>3, WireConverts
  <2>5. convertBigEndian(Wire(wire), 2, words) = wire
        BY <1>1, <2>3, <2>4, ConvertTwice
  <2>6. FromRegisters(wire, w, count, e) = [i \in 0 .. w * count - 1 |-> filled[i]]
        BY <1>5, <2>2, <2>5 DEF FromRegisters, words
  <2>7. QED  BY <1>3, <2>6 DEF wire
<1>6. CASE e = "littleEndian"
  <2>1. wire = convertBigEndian(filled, 2, words)
        BY <1>6, WhatTravels
  <2>2. wire = [i \in 0 .. 2 * words - 1 |-> wire[i]]
        BY <1>4, <2>1 DEF convertBigEndian
  <2> HIDE DEF wire, words, filled
  <2>3. Wire(wire) = convertBigEndian(wire, 2, words)
        BY <1>1, <2>2, WireConverts
  <2>4. Wire(wire) = filled
        BY <1>1, <1>2, <2>1, <2>3, ConvertTwice
  <2>5. FromRegisters(wire, w, count, e) = [i \in 0 .. w * count - 1 |-> filled[i]]
        BY <1>6, <2>4 DEF FromRegisters
  <2>6. QED  BY <1>3, <2>5 DEF wire
<1>7. QED  BY <1>5, <1>6 DEF Endianness

\* In bigEndian what travels is every value from its most significant byte on,
\* and a zero in the place of the byte that is missing.
LEMMA NetworkBytes ==
    ASSUME NEW w \in AllWidths, NEW count \in Nat, NEW bytes
    PROVE  LET wire == ToRegisters(bytes, w, count, "bigEndian")
           IN  /\ \A k \in 0 .. count - 1, j \in 0 .. w - 1 :
                     /\ k * w + j \in 0 .. 2 * WordCount(w, count) - 1
                     /\ wire[k * w + j] = bytes[k * w + (w - 1 - j)]
               /\ (w * count) % 2 = 1 =>
                     /\ w * count \in 0 .. 2 * WordCount(w, count) - 1
                     /\ wire[w * count] = 0
<1> DEFINE filled == Filled(bytes, w, count)
           words  == WordCount(w, count)
           wire   == ToRegisters(bytes, w, count, "bigEndian")
<1>1. /\ words \in Nat /\ w * count <= 2 * words /\ w * count \in Nat
      /\ (w * count) % 2 = 1 => w * count < 2 * words
      BY WordCountFacts
<1>2. wire = convertBigEndian(filled, w, count)
      BY WhatTravels DEF Endianness
<1>3. DOMAIN filled = 0 .. 2 * words - 1
      BY DEF Filled
<1>4. ASSUME NEW k \in 0 .. count - 1, NEW j \in 0 .. w - 1
      PROVE  /\ k * w + j \in 0 .. 2 * words - 1
             /\ wire[k * w + j] = bytes[k * w + (w - 1 - j)]
  <2>1. Mirror(w, k * w + j) = k * w + (w - 1 - j)
        BY MirrorOfByte
  <2>2. /\ k * w + j \in Nat /\ k * w + j < w * count
        /\ k * w + (w - 1 - j) \in Nat /\ k * w + (w - 1 - j) < w * count
    <3>1. CASE w = 1   BY <3>1
    <3>2. CASE w = 2   BY <3>2
    <3>3. CASE w = 4   BY <3>3
    <3>4. CASE w = 8   BY <3>4
    <3>5. CASE w = 16  BY <3>5
    <3>6. QED  BY <3>1, <3>2, <3>3, <3>4, <3>5 DEF AllWidths
  <2> DEFINE a == k * w + j
             b == k * w + (w - 1 - j)
  <2>3. a \in 0 .. 2 * words - 1 /\ b \in 0 .. 2 * words - 1
    <3> HIDE DEF a, b, words
    <3>1. a \in Nat /\ a < w * count /\ b \in Nat /\ b < w * count
          BY <2>2 DEF a, b
    <3>2. QED  BY <1>1, <3>1
  <2>4. wire[a] = filled[b]
    <3> HIDE DEF filled
    <3>1. QED  BY <1>2, <1>3, <2>1, <2>2, <2>3 DEF convertBigEndian
  <2>5. filled[b] = bytes[b]
    <3> HIDE DEF b
    <3>1. QED  BY <2>2, <2>3 DEF Filled, b
  <2>6. QED  BY <2>3, <2>4, <2>5
<1>5. ASSUME (w * count) % 2 = 1
      PROVE  w * count \in 0 .. 2 * words - 1 /\ wire[w * count] = 0
  <2>1. w * count \in 0 .. 2 * words - 1
        BY <1>1, <1>5
  <2>2. wire[w * count] = filled[w * count]
        BY <1>1, <1>2, <1>3, <2>1 DEF convertBigEndian
  <2>3. filled[w * count] = 0
        BY <1>1, <2>1 DEF Filled
  <2>4. QED  BY <2>1, <2>2, <2>3
<1>6. QED  BY <1>4, <1>5

-----------------------------------------------------------------------------
(***************************************************************************)
(* The inductive invariant: the registers still hold the last write, and   *)
(* the last read is what they hold.                                        *)
(***************************************************************************)
RegistersOK == registers = [i \in 0 .. 2 * Size - 1 |-> registers[i]]

Call(c) ==
    /\ c.w \in AllWidths /\ c.count \in Nat /\ c.e \in Endianness /\ c.at \in Nat
    /\ c.at + WordCount(c.w, c.count) <= Size

Held ==
    written.op = "values" =>
        /\ Call(written)
        /\ written.bytes = [i \in 0 .. written.w * written.count - 1 |-> written.bytes[i]]
        /\ Taken(written.at, WordCount(written.w, written.count))
             = ToRegisters(written.bytes, written.w, written.count, written.e)

Seen ==
    result.op = "values" =>
        result.bytes = FromRegisters(Taken(result.at, WordCount(result.w, result.count)),
                                     result.w, result.count, result.e)

DInv == RegistersOK /\ Held /\ Seen

LEMMA InitDInv == Init => DInv
BY DEF Init, DInv, RegistersOK, Held, Seen, Nothing

LEMMA PlaceOf ==
    ASSUME NEW at \in Nat, NEW words \in Nat, NEW size \in Nat, at + words <= size,
           NEW i \in 0 .. 2 * words - 1
    PROVE  2 * at + i \in 0 .. 2 * size - 1 /\ (2 * at + i) - 2 * at = i
OBVIOUS

\* A write leaves what it puts in the registers where it puts it.
LEMMA PutHolds ==
    ASSUME RegistersOK, NEW at \in Nat, NEW words \in Nat, NEW wire,
           DOMAIN wire = 0 .. 2 * words - 1, wire = [i \in 0 .. 2 * words - 1 |-> wire[i]],
           at + words <= Size, Put(at, wire)
    PROVE  RegistersOK' /\ Taken(at, words)' = wire
<1>1. DOMAIN registers = 0 .. 2 * Size - 1
      BY DEF RegistersOK
<1>2. RegistersOK'
      BY <1>1 DEF RegistersOK, Put
<1>3. ASSUME NEW i \in 0 .. 2 * words - 1
      PROVE  registers'[2 * at + i] = wire[i]
  <2>0. Size \in Nat
        BY DataAssumption
  <2>1. 2 * at + i \in 0 .. 2 * Size - 1 /\ (2 * at + i) - 2 * at = i
        BY <2>0, PlaceOf, Zenon
  <2>2. QED  BY <1>1, <2>1 DEF Put
<1>4. Taken(at, words)' = [i \in 0 .. 2 * words - 1 |-> registers'[2 * at + i]]
      BY DEF Taken
<1>5. QED  BY <1>2, <1>3, <1>4

LEMMA PutHoldsAny ==
    ASSUME RegistersOK, NEW at, NEW wire, Put(at, wire)
    PROVE  RegistersOK'
BY DEF RegistersOK, Put

\* A float of modbus-data.c is a littleEndian value of four bytes.
LEMMA FloatIsLittle ==
    modbus_set_float(Bytes(4)) = ToRegisters(Bytes(4), 4, 1, "littleEndian")
<1>1. WordCount(4, 1) = 2 /\ 4 * 1 = 4
      BY DEF WordCount
<1>2. Bytes(4) = [i \in 0 .. 3 |-> i + 1]
      BY DEF Bytes
<1>3. [i \in 0 .. 2 * 2 - 1 |-> IF i < 4 THEN Bytes(4)[i] ELSE 0] = Bytes(4)
      BY <1>2
<1>4. QED  BY <1>1, <1>3 DEF modbus_set_float, ToRegisters

LEMMA FloatIsRead ==
    ASSUME NEW wire, DOMAIN wire = 0 .. 3
    PROVE  modbus_get_float(wire) = FromRegisters(wire, 4, 1, "littleEndian")
<1>1. 4 * 1 - 1 = 3
      OBVIOUS
<1>2. QED  BY <1>1 DEF modbus_get_float, FromRegisters

LEMMA NextDInv ==
    ASSUME DInv, [Next]_vars
    PROVE  DInv'
<1>0. RegistersOK /\ Held /\ Seen /\ Size \in Nat /\ MaxCount \in Nat
      BY DataAssumption DEF DInv
<1>1. ASSUME NEW at \in 0 .. Size, NEW e \in Endianness, NEW w \in Widths,
             NEW count \in 0 .. MaxCount, writeRegisters(at, w, count, e)
      PROVE  DInv'
  <2> DEFINE bytes == Bytes(w * count)
             words == WordCount(w, count)
             wire  == ToRegisters(bytes, w, count, e)
  <2>1. w \in AllWidths /\ count \in Nat /\ at \in Nat
        BY <1>0, DataAssumption DEF AllWidths
  <2>2. words \in Nat /\ DOMAIN wire = 0 .. 2 * words - 1
        BY <2>1, WordCountFacts, WhatTravels
  <2>3. wire = [i \in 0 .. 2 * words - 1 |-> wire[i]]
        BY <2>2 DEF ToRegisters, Wire, convertBigEndian
  <2>4. at + words <= Size /\ Put(at, wire)
        BY <1>1 DEF writeRegisters
  <2>5. RegistersOK' /\ Taken(at, words)' = wire
    <3> HIDE DEF wire, words
    <3>1. QED  BY <1>0, <2>1, <2>2, <2>3, <2>4, PutHolds
  <2>6. bytes = [i \in 0 .. w * count - 1 |-> bytes[i]]
        BY DEF Bytes
  <2>7. /\ written' = [op |-> "values", at |-> at, w |-> w, count |-> count, e |-> e,
                       bytes |-> bytes]
        /\ result' = Nothing
        BY <1>1 DEF writeRegisters
  <2>8. Held'
    <3> HIDE DEF bytes, words, wire
    <3>1. Call(written)'
          BY <2>1, <2>4, <2>7 DEF Call, words
    <3>2. QED  BY <2>5, <2>6, <2>7, <3>1 DEF Held, words, wire, Taken
  <2>9. QED  BY <2>5, <2>7, <2>8 DEF DInv, Seen, Nothing
<1>2. ASSUME NEW at \in 0 .. Size, NEW e \in Endianness, NEW w \in Widths,
             NEW count \in 1 .. MaxCount, readRegisters(at, w, count, e)
      PROVE  DInv'
  <2>1. registers' = registers /\ written' = written
        BY <1>2 DEF readRegisters
  <2>2. RegistersOK' /\ Held'
        BY <1>0, <2>1 DEF RegistersOK, Held, Call, Taken
  <2>3. Seen'
        BY <1>2, <2>1 DEF readRegisters, Seen, Taken
  <2>4. QED  BY <2>2, <2>3 DEF DInv
<1>3. ASSUME NEW at \in 0 .. Size, setFloat(at)
      PROVE  DInv'
  <2> DEFINE bytes == Bytes(4)
             wire  == ToRegisters(bytes, 4, 1, "littleEndian")
  <2>1. 4 \in AllWidths /\ 1 \in Nat /\ "littleEndian" \in Endianness
        /\ WordCount(4, 1) = 2 /\ at \in Nat
        BY <1>0 DEF AllWidths, Endianness, WordCount
  <2>2. DOMAIN wire = 0 .. 2 * 2 - 1
        BY <2>1, WhatTravels
  <2>3. wire = [i \in 0 .. 2 * 2 - 1 |-> wire[i]]
        BY <2>2 DEF ToRegisters, Wire, convertBigEndian
  <2>4. at + 2 <= Size /\ Put(at, wire)
        BY <1>3, FloatIsLittle DEF setFloat
  <2>5. RegistersOK' /\ Taken(at, 2)' = wire
    <3> HIDE DEF wire
    <3>1. QED  BY <1>0, <2>1, <2>2, <2>3, <2>4, PutHolds
  <2>6. bytes = [i \in 0 .. 4 * 1 - 1 |-> bytes[i]]
        BY DEF Bytes
  <2>7. /\ written' = [op |-> "values", at |-> at, w |-> 4, count |-> 1,
                       e |-> "littleEndian", bytes |-> bytes]
        /\ result' = Nothing
        BY <1>3 DEF setFloat
  <2>8. Held'
    <3> HIDE DEF bytes
    <3>1. Call(written)'
          BY <2>1, <2>4, <2>7 DEF Call
    <3> HIDE DEF wire
    <3>2. QED  BY <2>1, <2>5, <2>6, <2>7, <3>1 DEF Held, wire, Taken
  <2>9. QED  BY <2>5, <2>7, <2>8 DEF DInv, Seen, Nothing
<1>4. ASSUME NEW at \in 0 .. Size, getFloat(at)
      PROVE  DInv'
  <2>1. registers' = registers /\ written' = written
        BY <1>4 DEF getFloat
  <2>2. RegistersOK' /\ Held'
        BY <1>0, <2>1 DEF RegistersOK, Held, Call, Taken
  <2>3. WordCount(4, 1) = 2
        BY DEF WordCount
  <2>4. DOMAIN Taken(at, 2) = 0 .. 3
        BY DEF Taken
  <2>5. modbus_get_float(Taken(at, 2)) = FromRegisters(Taken(at, 2), 4, 1, "littleEndian")
        BY <2>4, FloatIsRead
  <2>6. Seen'
        BY <1>4, <2>1, <2>3, <2>5 DEF getFloat, Seen, Taken
  <2>7. QED  BY <2>2, <2>6 DEF DInv
<1>5. ASSUME NEW at \in 0 .. Size, NEW e \in Endianness,
             NEW count \in 0 .. MaxCount, NEW string \in Strings,
             writeASCIIString(at, count, string, e)
      PROVE  DInv'
  <2>1. RegistersOK'
        BY <1>0, <1>5, PutHoldsAny DEF writeASCIIString
  <2>2. written'.op = "string" /\ result' = Nothing
        BY <1>5 DEF writeASCIIString
  <2>3. QED  BY <2>1, <2>2 DEF DInv, Held, Seen, Nothing
<1>6. ASSUME NEW at \in 0 .. Size, NEW e \in Endianness,
             NEW count \in 1 .. MaxCount, readASCIIString(at, count, e)
      PROVE  DInv'
  <2>1. registers' = registers /\ written' = written /\ result'.op = "string"
        BY <1>6 DEF readASCIIString
  <2>2. RegistersOK' /\ Held'
        BY <1>0, <2>1 DEF RegistersOK, Held, Call, Taken
  <2>3. QED  BY <2>1, <2>2 DEF DInv, Seen
<1>7. CASE UNCHANGED vars
      BY <1>0, <1>7 DEF vars, DInv, RegistersOK, Held, Seen, Call, Taken
<1>8. QED  BY <1>1, <1>2, <1>3, <1>4, <1>5, <1>6, <1>7 DEF Next

-----------------------------------------------------------------------------
\* What was written is what is read: the held bytes are those of the write, and
\* the read undoes it.
LEMMA DInvRoundTrip == DInv => RoundTrip
<1>1. SUFFICES ASSUME DInv, written.op = "values", result.op = "values",
                      SameCall, written.w = result.w
               PROVE  result.bytes = written.bytes
      BY DEF RoundTrip
<1>2. /\ Call(written)
      /\ written.bytes = [i \in 0 .. written.w * written.count - 1 |-> written.bytes[i]]
      /\ Taken(written.at, WordCount(written.w, written.count))
           = ToRegisters(written.bytes, written.w, written.count, written.e)
      BY <1>1 DEF DInv, Held
<1>3. result.bytes
        = FromRegisters(Taken(written.at, WordCount(written.w, written.count)),
                        written.w, written.count, written.e)
      BY <1>1 DEF DInv, Seen, SameCall
<1>4. QED  BY <1>2, <1>3, FromTo DEF Call

LEMMA DInvNetworkOrder == DInv => NetworkOrder
<1>1. SUFFICES ASSUME DInv, written.op = "values", written.e = "bigEndian"
               PROVE  /\ \A k \in 0 .. written.count - 1, j \in 0 .. written.w - 1 :
                            registers[2 * written.at + k * written.w + j]
                              = written.bytes[k * written.w + (written.w - 1 - j)]
                      /\ (written.w * written.count) % 2 = 1 =>
                            registers[2 * written.at + written.w * written.count] = 0
      BY DEF NetworkOrder
<1> DEFINE w == written.w
           n == written.count
           at == written.at
           wire == ToRegisters(written.bytes, w, n, "bigEndian")
<1>2. /\ w \in AllWidths /\ n \in Nat /\ at \in Nat
      /\ Taken(at, WordCount(w, n)) = wire
      BY <1>1 DEF DInv, Held, Call
<1>3. \A i \in 0 .. 2 * WordCount(w, n) - 1 : registers[2 * at + i] = wire[i]
      BY <1>2 DEF Taken
<1> HIDE DEF wire
<1>4. ASSUME NEW k \in 0 .. n - 1, NEW j \in 0 .. w - 1
      PROVE  registers[2 * at + k * w + j] = written.bytes[k * w + (w - 1 - j)]
  <2>1. /\ k * w + j \in 0 .. 2 * WordCount(w, n) - 1
        /\ wire[k * w + j] = written.bytes[k * w + (w - 1 - j)]
        BY <1>2, NetworkBytes DEF wire
  <2>2. registers[2 * at + (k * w + j)] = wire[k * w + j]
        BY <1>3, <2>1
  <2>3. k * w \in Int /\ 2 * at \in Int /\ j \in Int
        BY <1>2 DEF AllWidths
  <2>4. 2 * at + k * w + j = 2 * at + (k * w + j)
        BY <2>3
  <2>5. QED  BY <2>1, <2>2, <2>4
<1>5. ASSUME (w * n) % 2 = 1
      PROVE  registers[2 * at + w * n] = 0
  <2>1. w * n \in 0 .. 2 * WordCount(w, n) - 1 /\ wire[w * n] = 0
        BY <1>2, <1>5, NetworkBytes DEF wire
  <2>2. QED  BY <1>3, <2>1
<1>6. QED  BY <1>4, <1>5

\* For every type of 1 to 16 bytes, every number of values, both byte orders and
\* every address: a read of the same kind returns what the last write wrote.
THEOREM ReadsBackWhatWasWritten == Spec => []RoundTrip
<1>1. QED  BY InitDInv, NextDInv, DInvRoundTrip, PTL DEF Spec

\* The same for the order of the bytes: a bigEndian write puts every value into
\* the registers from its most significant byte on, and fills up with zero.
THEOREM WritesNetworkOrder == Spec => []NetworkOrder
<1>1. QED  BY InitDInv, NextDInv, DInvNetworkOrder, PTL DEF Spec

-----------------------------------------------------------------------------
(***************************************************************************)
(* Strings.                                                                *)
(***************************************************************************)
\* The natural numbers are well ordered.
LEMMA Least ==
    ASSUME NEW T, T \subseteq Nat, T # {}
    PROVE  \E x \in T : \A y \in T : x <= y
<1> DEFINE R == OpToRel(<, Nat)
<1>1. IsWellFoundedOn(R, Nat)
      BY NatLessThanWellFounded, Zenon
<1>2. \A x, y \in Nat : y < x => <<y, x>> \in R
      BY DEF OpToRel
<1> HIDE DEF R
<1>3. PICK x \in T : \A y \in T : ~(<<y, x>> \in R)
      BY <1>1, WFMin
<1>4. ASSUME NEW y \in T PROVE x <= y
  <2>1. x \in Nat /\ y \in Nat /\ ~(y < x)
        BY <1>2, <1>3
  <2>2. QED  BY <2>1
<1>5. QED  BY <1>4

\* The array a string is written from.
Values(string, count) ==
    [i \in 0 .. count - 1 |-> IF i < Len(string) THEN asciiValue(string[i + 1]) ELSE 0]

\* How far it is read.
Ends(values, count, n) ==
    /\ \A i \in 0 .. n - 1 : values[i] # 0
    /\ n < count => values[n] = 0

\* There is always such a place: the first zero, or the end of the array.
LEMMA SomeEnd ==
    ASSUME NEW count \in Nat, NEW values
    PROVE  \E n \in 0 .. count : Ends(values, count, n)
<1> DEFINE T == {n \in 0 .. count : n < count => values[n] = 0}
<1>1. count \in T /\ T \subseteq Nat
      OBVIOUS
<1>2. PICK n \in T : \A m \in T : n <= m
      BY <1>1, Least
<1>3. ASSUME NEW i \in 0 .. n - 1 PROVE values[i] # 0
  <2>1. i \in 0 .. count /\ ~(n <= i)
        BY <1>1
  <2>2. QED  BY <1>2, <2>1
<1>4. QED  BY <1>2, <1>3 DEF Ends

\* What is read of a string that was written.
LEMMA ReadOfString ==
    ASSUME NEW count \in Nat, NEW string \in Seq(Nat), Len(string) <= count,
           NEW n \in 0 .. count, Ends(Values(string, count), count, n)
    PROVE  /\ n <= Len(string)
           /\ \A i \in 1 .. n : Values(string, count)[i - 1]
                                  = IF string[i] = CRLF THEN LF ELSE string[i]
           /\ n < Len(string) => asciiValue(string[n + 1]) = 0
<1> DEFINE values == Values(string, count)
<1>0. Len(string) \in Nat
      OBVIOUS
<1>1. \A i \in 0 .. count - 1 :
         values[i] = IF i < Len(string) THEN asciiValue(string[i + 1]) ELSE 0
      BY DEF Values
<1>2. /\ \A i \in 0 .. n - 1 : values[i] # 0
      /\ n < count => values[n] = 0
      BY DEF Ends
<1> HIDE DEF values
<1>3. n <= Len(string)
  <2>1. SUFFICES ASSUME Len(string) < n PROVE FALSE
        BY <1>0
  <2>2. Len(string) \in 0 .. n - 1 /\ Len(string) \in 0 .. count - 1
        BY <1>0, <2>1
  <2>3. QED  BY <1>1, <1>2, <2>2
<1>4. ASSUME NEW i \in 1 .. n
      PROVE  values[i - 1] = IF string[i] = CRLF THEN LF ELSE string[i]
  <2> DEFINE j == i - 1
             ch == string[i]
  <2>1. j \in 0 .. n - 1 /\ j \in 0 .. count - 1 /\ j < Len(string) /\ j + 1 = i
        BY <1>0, <1>3
  <2> HIDE DEF j
  <2>2. values[j] # 0 /\ values[j] = asciiValue(ch)
        BY <1>1, <1>2, <2>1
  <2> HIDE DEF ch
  <2>3. values[j] = IF ch = CRLF THEN LF ELSE ch
        BY <2>2 DEF asciiValue
  <2>4. QED  BY <2>3 DEF j, ch
<1>5. ASSUME n < Len(string) PROVE asciiValue(string[n + 1]) = 0
  <2>1. n \in 0 .. count - 1 /\ n < count
        BY <1>0, <1>5
  <2>2. QED  BY <1>1, <1>2, <1>5, <2>1
<1>6. QED  BY <1>3, <1>4, <1>5 DEF values

\* The inductive invariant, as for values.
StringHeld ==
    written.op = "string" =>
        /\ written.count \in Nat /\ written.e \in Endianness /\ written.at \in Nat
        /\ written.string \in Seq(Nat) /\ Len(written.string) <= written.count
        /\ Taken(written.at, WordCount(1, written.count))
             = ToRegisters(Values(written.string, written.count), 1, written.count, written.e)

StringSeen ==
    result.op = "string" =>
        \E n \in 0 .. result.count :
            LET values == FromRegisters(Taken(result.at, WordCount(1, result.count)),
                                        1, result.count, result.e)
            IN  /\ Ends(values, result.count, n)
                /\ result.string = [i \in 1 .. n |-> values[i - 1]]

SInv == RegistersOK /\ StringHeld /\ StringSeen

LEMMA InitSInv == Init => SInv
BY DEF Init, SInv, RegistersOK, StringHeld, StringSeen, Nothing

LEMMA NextSInv ==
    ASSUME SInv, [Next]_vars
    PROVE  SInv'
<1>0. RegistersOK /\ StringHeld /\ StringSeen /\ Size \in Nat /\ MaxCount \in Nat
      BY DataAssumption DEF SInv
<1>1. ASSUME NEW at, NEW wire, Put(at, wire), written'.op = "values", result' = Nothing
      PROVE  SInv'
      BY <1>0, <1>1, PutHoldsAny DEF SInv, StringHeld, StringSeen, Nothing
<1>2. ASSUME NEW at, NEW w, NEW count, NEW e, writeRegisters(at, w, count, e)
      PROVE  SInv'
      BY <1>1, <1>2 DEF writeRegisters
<1>3. ASSUME NEW at, setFloat(at)
      PROVE  SInv'
      BY <1>1, <1>3 DEF setFloat
<1>4. ASSUME UNCHANGED <<registers, written>>
      PROVE  RegistersOK' /\ StringHeld'
      BY <1>0, <1>4 DEF RegistersOK, StringHeld, Taken
<1>5. ASSUME NEW at, NEW w, NEW count, NEW e, readRegisters(at, w, count, e)
      PROVE  SInv'
      BY <1>4, <1>5 DEF readRegisters, SInv, StringSeen
<1>6. ASSUME NEW at, getFloat(at)
      PROVE  SInv'
      BY <1>4, <1>6 DEF getFloat, SInv, StringSeen
<1>7. ASSUME NEW at \in 0 .. Size, NEW e \in Endianness,
             NEW count \in 0 .. MaxCount, NEW string \in Strings,
             writeASCIIString(at, count, string, e)
      PROVE  SInv'
  <2> DEFINE values == Values(string, count)
             words  == WordCount(1, count)
             wire   == ToRegisters(values, 1, count, e)
  <2>1. 1 \in AllWidths /\ count \in Nat /\ at \in Nat /\ string \in Seq(Nat)
        BY <1>0, DataAssumption DEF AllWidths
  <2>2. words \in Nat /\ DOMAIN wire = 0 .. 2 * words - 1
        BY <2>1, WordCountFacts, WhatTravels
  <2>3. wire = [i \in 0 .. 2 * words - 1 |-> wire[i]]
        BY <2>2 DEF ToRegisters, Wire, convertBigEndian
  <2>4. at + words <= Size /\ Put(at, wire) /\ Len(string) <= count
        BY <1>7 DEF writeASCIIString, Values
  <2>5. RegistersOK' /\ Taken(at, words)' = wire
    <3> HIDE DEF wire, words
    <3>1. QED  BY <1>0, <2>1, <2>2, <2>3, <2>4, PutHolds
  <2>6. /\ written' = [op |-> "string", at |-> at, count |-> count, e |-> e,
                       string |-> string]
        /\ result' = Nothing
        BY <1>7 DEF writeASCIIString
  <2>7. StringHeld'
    <3> HIDE DEF wire, words
    <3>1. QED  BY <2>1, <2>4, <2>5, <2>6 DEF StringHeld, wire, words, Taken
  <2>8. QED  BY <2>5, <2>6, <2>7 DEF SInv, StringSeen, Nothing
<1>8. ASSUME NEW at \in 0 .. Size, NEW e \in Endianness,
             NEW count \in 1 .. MaxCount, readASCIIString(at, count, e)
      PROVE  SInv'
  <2> DEFINE values == FromRegisters(Taken(at, WordCount(1, count)), 1, count, e)
             length == CHOOSE n \in 0 .. count : Ends(values, count, n)
  <2>1. count \in Nat
        BY <1>0
  <2>2. length \in 0 .. count /\ Ends(values, count, length)
        BY <2>1, SomeEnd
  <2>3. /\ result' = [op |-> "string", at |-> at, count |-> count, e |-> e,
                      string |-> [i \in 1 .. length |-> values[i - 1]]]
        /\ UNCHANGED <<registers, written>>
        BY <1>8 DEF readASCIIString, Ends
  <2>4. values' = values
        BY <2>3 DEF Taken
  <2>5. StringSeen'
        BY <2>2, <2>3, <2>4 DEF StringSeen, Taken
  <2>6. QED  BY <1>4, <2>3, <2>5 DEF SInv
<1>9. CASE UNCHANGED vars
  <2>1. UNCHANGED <<registers, written, result>>
        BY <1>9 DEF vars
  <2>2. \A at, words : Taken(at, words)' = Taken(at, words)
        BY <2>1, Zenon DEF Taken
  <2>3. StringSeen /\ result' = result
        BY <1>0, <2>1
  <2>4. StringSeen'
        BY <2>2, <2>3, Zenon DEF StringSeen
  <2>5. QED  BY <1>4, <2>1, <2>4 DEF SInv
<1>10. QED  BY <1>2, <1>3, <1>5, <1>6, <1>7, <1>8, <1>9 DEF Next

LEMMA SInvStringBack == SInv => StringBack
<1>1. SUFFICES ASSUME SInv, written.op = "string", result.op = "string", SameCall
               PROVE  /\ Len(result.string) <= Len(written.string)
                      /\ \A i \in 1 .. Len(result.string) :
                            result.string[i] = IF written.string[i] = CRLF
                                                 THEN LF ELSE written.string[i]
                      /\ Len(result.string) < Len(written.string) =>
                            asciiValue(written.string[Len(result.string) + 1]) = 0
      BY DEF StringBack
<1> DEFINE count  == written.count
           string == written.string
           values == Values(string, count)
<1>2. /\ count \in Nat /\ written.e \in Endianness /\ string \in Seq(Nat)
      /\ Len(string) <= count
      /\ Taken(written.at, WordCount(1, count)) = ToRegisters(values, 1, count, written.e)
      BY <1>1 DEF SInv, StringHeld
<1>3. FromRegisters(ToRegisters(values, 1, count, written.e), 1, count, written.e) = values
  <2>1. values = [i \in 0 .. 1 * count - 1 |-> values[i]]
        BY <1>2 DEF Values
  <2>2. 1 \in AllWidths
        BY DEF AllWidths
  <2> HIDE DEF values, count
  <2>3. QED  BY <1>2, <2>1, <2>2, FromTo
<1> DEFINE got == FromRegisters(Taken(result.at, WordCount(1, result.count)),
                                1, result.count, result.e)
<1>4. PICK n \in 0 .. count : /\ Ends(values, count, n)
                              /\ result.string = [i \in 1 .. n |-> values[i - 1]]
  <2>1. result.at = written.at /\ result.count = count /\ result.e = written.e
        BY <1>1 DEF SameCall
  <2>2. got = values
        BY <1>2, <1>3, <2>1, Zenon
  <2>3. \E n \in 0 .. result.count : /\ Ends(got, result.count, n)
                                    /\ result.string = [i \in 1 .. n |-> got[i - 1]]
        BY <1>1 DEF SInv, StringSeen
  <2> HIDE DEF got, values, count
  <2>4. QED  BY <2>1, <2>2, <2>3
<1>5. /\ n <= Len(string)
      /\ \A i \in 1 .. n : values[i - 1] = IF string[i] = CRLF THEN LF ELSE string[i]
      /\ n < Len(string) => asciiValue(string[n + 1]) = 0
      BY <1>2, <1>4, ReadOfString
<1>6. Len(result.string) = n /\ \A i \in 1 .. n : result.string[i] = values[i - 1]
      BY <1>2, <1>4
<1>7. QED  BY <1>5, <1>6

\* Every string of any characters that fits is read back up to its first
\* character that is not ASCII, with a CR LF as LF, and nothing after that
\* (writeASCIIString, readASCIIString).
THEOREM StringsReadBack == Spec => []StringBack
<1>1. QED  BY InitSInv, NextSInv, SInvStringBack, PTL DEF Spec
-----------------------------------------------------------------------------
(***************************************************************************)
(* Bits: the sum of a byte, whatever the order of its summands.            *)
(***************************************************************************)
Part(S, F, k) == IF k \in S THEN F[k] ELSE 0

Eight(S, F) == Part(S, F, 0) + Part(S, F, 1) + Part(S, F, 2) + Part(S, F, 3)
               + Part(S, F, 4) + Part(S, F, 5) + Part(S, F, 6) + Part(S, F, 7)

Some(s) == CHOOSE x \in s : TRUE

LEMMA EightIsNat ==
    ASSUME NEW S, NEW F \in [0 .. 7 -> Nat]
    PROVE  Eight(S, F) \in Nat
<1> DEFINE P(k) == Part(S, F, k)
<1>1. \A k \in 0 .. 7 : P(k) \in Nat
      BY DEF Part
<1>2. Eight(S, F) = P(0) + P(1) + P(2) + P(3) + P(4) + P(5) + P(6) + P(7)
      BY DEF Eight
<1> HIDE DEF P
<1>3. QED  BY <1>1, <1>2

LEMMA EightPick ==
    ASSUME NEW S \in SUBSET (0 .. 7), NEW F \in [0 .. 7 -> Nat], NEW x \in S
    PROVE  Eight(S, F) = F[x] + Eight(S \ {x}, F)
<1> DEFINE P(k) == Part(S, F, k)
           Q(k) == Part(S \ {x}, F, k)
<1>1. \A k \in 0 .. 7 : P(k) \in Nat /\ Q(k) \in Nat
      BY DEF Part
<1>2. \A k \in 0 .. 7 : k # x => P(k) = Q(k)
      BY DEF Part
<1>3. P(x) = F[x] /\ Q(x) = 0 /\ F[x] \in Nat
      BY DEF Part
<1>4. /\ Eight(S, F) = P(0) + P(1) + P(2) + P(3) + P(4) + P(5) + P(6) + P(7)
      /\ Eight(S \ {x}, F) = Q(0) + Q(1) + Q(2) + Q(3) + Q(4) + Q(5) + Q(6) + Q(7)
      BY DEF Eight
<1> HIDE DEF P, Q
<1>5. x = 0 \/ x = 1 \/ x = 2 \/ x = 3 \/ x = 4 \/ x = 5 \/ x = 6 \/ x = 7
      OBVIOUS
<1>6. QED  BY <1>1, <1>2, <1>3, <1>4, <1>5

LEMMA EightEmpty ==
    ASSUME NEW F
    PROVE  Eight({}, F) = 0
BY DEF Eight, Part

\* The definition of MapThenSumSet has a solution, and only one.
LEMMA SumExists ==
    ASSUME NEW S \in SUBSET (0 .. 7), NEW F \in [0 .. 7 -> Nat]
    PROVE  \E it : it = [s \in SUBSET S |->
                    IF s = {} THEN 0 ELSE F[Some(s)] + it[s \ {Some(s)}]]
<1> DEFINE W == [s \in SUBSET S |-> Eight(s, F)]
<1>1. ASSUME NEW s \in SUBSET S
      PROVE  Eight(s, F) = IF s = {} THEN 0 ELSE F[Some(s)] + W[s \ {Some(s)}]
  <2>1. CASE s = {}
        BY <2>1, EightEmpty
  <2>2. CASE s # {}
    <3>1. Some(s) \in s /\ s \in SUBSET (0 .. 7)
          BY <2>2 DEF Some
    <3>2. Eight(s, F) = F[Some(s)] + Eight(s \ {Some(s)}, F)
          BY <3>1, EightPick
    <3>3. QED  BY <2>2, <3>2
  <2>3. QED  BY <2>1, <2>2
<1>2. W = [s \in SUBSET S |-> IF s = {} THEN 0 ELSE F[Some(s)] + W[s \ {Some(s)}]]
      BY <1>1
<1> HIDE DEF W
<1>3. QED  BY <1>2

LEMMA SumIsEight ==
    ASSUME NEW S \in SUBSET (0 .. 7), NEW F \in [0 .. 7 -> Nat], NEW it,
           \A s \in SUBSET S :
              it[s] = IF s = {} THEN 0 ELSE F[Some(s)] + it[s \ {Some(s)}]
    PROVE  it[S] = Eight(S, F)
<1> DEFINE Ones == [k \in 0 .. 7 |-> 1]
           Wrong == {s \in SUBSET S : it[s] # Eight(s, F)}
           T == {Eight(s, Ones) : s \in Wrong}
<1>1. \A s \in SUBSET S :
         it[s] = IF s = {} THEN 0 ELSE F[Some(s)] + it[s \ {Some(s)}]
      OBVIOUS
<1>2. Ones \in [0 .. 7 -> Nat] /\ \A k \in 0 .. 7 : Ones[k] = 1
  <2>1. 1 \in Nat
        OBVIOUS
  <2>2. QED  BY <2>1, Zenon
<1> HIDE DEF Ones
<1>3. SUFFICES ASSUME Wrong # {} PROVE FALSE
      OBVIOUS
<1>4. T \subseteq Nat /\ T # {}
      BY <1>2, <1>3, EightIsNat
<1>5. PICK n \in T : \A m \in T : n <= m
      BY <1>4, Least
<1>6. PICK s \in Wrong : n = Eight(s, Ones)
      BY <1>5
<1>7. s # {}
      BY <1>1, <1>6, EightEmpty
<1> DEFINE x == Some(s)
           r == s \ {x}
<1>8. x \in s /\ s \in SUBSET (0 .. 7) /\ r \in SUBSET S
      BY <1>7 DEF Some
<1>9. it[s] = F[x] + it[r]
      BY <1>1, <1>7
<1> HIDE DEF x
<1>10. Eight(s, F) = F[x] + Eight(r, F) /\ Eight(s, Ones) = 1 + Eight(r, Ones)
       BY <1>2, <1>8, EightPick
<1>11. r \in Wrong
       BY <1>6, <1>8, <1>9, <1>10
<1>12. Eight(r, Ones) \in T /\ Eight(r, Ones) \in Nat
       BY <1>2, <1>8, <1>11, EightIsNat
<1>13. n <= Eight(r, Ones) /\ n = 1 + Eight(r, Ones)
       BY <1>5, <1>6, <1>10, <1>12, Zenon
<1>14. QED  BY <1>12, <1>13

-----------------------------------------------------------------------------
\* The bits of a message, packed as the protocol says: eight to a byte from the
\* least significant on, and zeros after the last one.
BitAt(bits, n, j) == IF j \in 0 .. n - 1 THEN bits[j + 1] ELSE 0

ByteAt(bits, n, q) ==
    BitAt(bits, n, 8 * q) + 2 * BitAt(bits, n, 8 * q + 1)
    + 4 * BitAt(bits, n, 8 * q + 2) + 8 * BitAt(bits, n, 8 * q + 3)
    + 16 * BitAt(bits, n, 8 * q + 4) + 32 * BitAt(bits, n, 8 * q + 5)
    + 64 * BitAt(bits, n, 8 * q + 6) + 128 * BitAt(bits, n, 8 * q + 7)

PackedBits(bits, n) == [i \in 1 .. BytesFor(n) |-> ByteAt(bits, n, i - 1)]

LEMMA BitAtFacts ==
    ASSUME NEW n \in Nat, NEW bits \in [1 .. n -> {0, 1}], NEW j \in Nat
    PROVE  BitAt(bits, n, j) \in {0, 1}
<1>1. CASE j \in 0 .. n - 1
  <2>1. j + 1 \in 1 .. n
        BY <1>1
  <2>2. QED  BY <1>1, <2>1 DEF BitAt
<1>2. CASE j \notin 0 .. n - 1
      BY <1>2 DEF BitAt
<1>3. QED  BY <1>1, <1>2

LEMMA BitOfByte ==
    ASSUME NEW b \in [0 .. 7 -> {0, 1}], NEW k \in 0 .. 7
    PROVE  Bit(b[0] + 2 * b[1] + 4 * b[2] + 8 * b[3] + 16 * b[4] + 32 * b[5]
               + 64 * b[6] + 128 * b[7], k) = b[k]
<1>1. \A j \in 0 .. 7 : b[j] \in 0 .. 1
      OBVIOUS
<1>2. CASE k = 0 BY <1>1, <1>2 DEF Bit
<1>3. CASE k = 1 BY <1>1, <1>3 DEF Bit
<1>4. CASE k = 2 BY <1>1, <1>4 DEF Bit
<1>5. CASE k = 3 BY <1>1, <1>5 DEF Bit
<1>6. CASE k = 4 BY <1>1, <1>6 DEF Bit
<1>7. CASE k = 5 BY <1>1, <1>7 DEF Bit
<1>8. CASE k = 6 BY <1>1, <1>8 DEF Bit
<1>9. CASE k = 7 BY <1>1, <1>9 DEF Bit
<1>10. QED
  <2>1. k = 0 \/ k = 1 \/ k = 2 \/ k = 3 \/ k = 4 \/ k = 5 \/ k = 6 \/ k = 7
        OBVIOUS
  <2>2. QED  BY <2>1, <1>2, <1>3, <1>4, <1>5, <1>6, <1>7, <1>8, <1>9, Zenon

LEMMA BytesForFacts ==
    ASSUME NEW n \in Nat
    PROVE  /\ BytesFor(n) \in Nat
           /\ n <= 8 * BytesFor(n)
           /\ \A j \in 0 .. n - 1 : j \div 8 + 1 \in 1 .. BytesFor(n)
           /\ \A i \in 1 .. BytesFor(n) : 8 * (i - 1) < n
           /\ BytesFor(n) = IF n % 8 # 0 THEN n \div 8 + 1 ELSE n \div 8
BY DEF BytesFor

LEMMA Unpacked ==
    ASSUME NEW n \in Nat, NEW bits \in [1 .. n -> {0, 1}], NEW j \in 0 .. n - 1
    PROVE  Bit(PackedBits(bits, n)[j \div 8 + 1], j % 8) = bits[j + 1]
<1> DEFINE q == j \div 8
           k == j % 8
           b == [i \in 0 .. 7 |-> BitAt(bits, n, 8 * q + i)]
<1>1. q \in Nat /\ k \in 0 .. 7 /\ j = 8 * q + k
      OBVIOUS
<1>2. q + 1 \in 1 .. BytesFor(n)
      BY BytesForFacts
<1> HIDE DEF q, k
<1>3. b \in [0 .. 7 -> {0, 1}]
  <2>1. \A i \in 0 .. 7 : BitAt(bits, n, 8 * q + i) \in {0, 1}
        BY <1>1, BitAtFacts
  <2>2. QED  BY <2>1
<1>4. PackedBits(bits, n)[q + 1] = ByteAt(bits, n, q)
  <2>1. (q + 1) - 1 = q
        BY <1>1
  <2>2. QED  BY <1>2, <2>1 DEF PackedBits
<1>5. ByteAt(bits, n, q) = b[0] + 2 * b[1] + 4 * b[2] + 8 * b[3] + 16 * b[4]
                           + 32 * b[5] + 64 * b[6] + 128 * b[7]
  <2>1. 8 * q + 0 = 8 * q
        BY <1>1
  <2>2. QED  BY <2>1 DEF ByteAt
<1>6. b[k] = bits[j + 1]
      BY <1>1 DEF BitAt
<1> HIDE DEF b
<1>7. Bit(b[0] + 2 * b[1] + 4 * b[2] + 8 * b[3] + 16 * b[4] + 32 * b[5]
          + 64 * b[6] + 128 * b[7], k) = b[k]
      BY <1>1, <1>3, BitOfByte
<1>8. QED  BY <1>4, <1>5, <1>6, <1>7 DEF q, k

-----------------------------------------------------------------------------
LEMMA PowerIsNat ==
    ASSUME NEW k \in 0 .. 7
    PROVE  2 ^ k \in Nat
<1>1. k = 0 \/ k = 1 \/ k = 2 \/ k = 3 \/ k = 4 \/ k = 5 \/ k = 6 \/ k = 7
      OBVIOUS
<1>2. CASE k = 0  BY <1>2
<1>3. CASE k = 1  BY <1>3
<1>4. CASE k = 2  BY <1>4
<1>5. CASE k = 3  BY <1>5
<1>6. CASE k = 4  BY <1>6
<1>7. CASE k = 5  BY <1>7
<1>8. CASE k = 6  BY <1>8
<1>9. CASE k = 7  BY <1>9
<1>10. QED  BY <1>1, <1>2, <1>3, <1>4, <1>5, <1>6, <1>7, <1>8, <1>9, Zenon

\* The byte i of write_bits is a sum of its own.
LEMMA WriteBitsByte ==
    ASSUME NEW n \in Nat, NEW src \in [1 .. n -> {0, 1}], Len(src) = n,
           NEW i \in 1 .. BytesFor(n)
    PROVE  write_bits(src)[i] = ByteAt(src, n, i - 1)
<1> DEFINE q == i - 1
           S == {k \in 0 .. 7 : 8 * (i - 1) + k < Len(src)}
           V(k) == IF src[8 * (i - 1) + k + 1] # 0 THEN 2 ^ k ELSE 0
           F == [k \in 0 .. 7 |-> IF k \in S THEN V(k) ELSE 0]
           E(it) == it = [s \in SUBSET S |->
                       IF s = {} THEN 0 ELSE V(Some(s)) + it[s \ {Some(s)}]]
<1>1. write_bits(src)[i] = (CHOOSE it : E(it))[S]
      BY DEF write_bits, MapThenSumSet, MapThenFoldSet, Some
<1>2. i \in Nat \ {0} /\ q \in Nat /\ S \in SUBSET (0 .. 7)
  <2>1. BytesFor(n) \in Nat
        BY BytesForFacts
  <2>2. i \in Nat \ {0} /\ q \in Nat
        BY <2>1
  <2>3. S \in SUBSET (0 .. 7)
        OBVIOUS
  <2>4. QED  BY <2>2, <2>3
<1>3. \A k \in 0 .. 7 : 2 ^ k \in Nat
      BY PowerIsNat, Zenon
<1>4. F \in [0 .. 7 -> Nat]
  <2>1. ASSUME NEW k \in 0 .. 7 PROVE (IF k \in S THEN V(k) ELSE 0) \in Nat
        BY <1>3
  <2> HIDE DEF S, V
  <2>2. QED  BY <2>1
<1>5. \A s \in SUBSET S : s # {} => V(Some(s)) = F[Some(s)]
  <2>1. \A k \in S : V(k) = F[k]
        BY <1>2
  <2> HIDE DEF S, V, F
  <2>2. QED  BY <2>1 DEF Some
<1> HIDE DEF S, V, F
<1>6. \E it : E(it)
  <2>1. PICK it : it = [s \in SUBSET S |->
                     IF s = {} THEN 0 ELSE F[Some(s)] + it[s \ {Some(s)}]]
        BY <1>2, <1>4, SumExists, Zenon
  <2>2. E(it)
        BY <1>5, <2>1
  <2>3. QED  BY <2>2, Zenon
<1> DEFINE it == CHOOSE f : E(f)
<1>7. E(it)
      BY <1>6, Zenon
<1> HIDE DEF it
<1>8. \A s \in SUBSET S : it[s] = IF s = {} THEN 0 ELSE F[Some(s)] + it[s \ {Some(s)}]
      BY <1>5, <1>7
<1>9. it[S] = Eight(S, F)
      BY <1>2, <1>4, <1>8, SumIsEight
<1>10. Eight(S, F) = ByteAt(src, n, q)
  <2> DEFINE B(k) == BitAt(src, n, 8 * q + k)
  <2>1. ASSUME NEW k \in 0 .. 7 PROVE Part(S, F, k) = (IF B(k) = 0 THEN 0 ELSE 2 ^ k)
        BY <1>2 DEF Part, S, V, F, BitAt
  <2>2. \A k \in 0 .. 7 : B(k) \in 0 .. 1
        BY <1>2, BitAtFacts
  <2>3. ByteAt(src, n, q) = B(0) + 2 * B(1) + 4 * B(2) + 8 * B(3) + 16 * B(4)
                            + 32 * B(5) + 64 * B(6) + 128 * B(7)
        BY <1>2 DEF ByteAt
  <2> HIDE DEF B
  <2> DEFINE P(k) == Part(S, F, k)
  <2>4. /\ P(0) = B(0) /\ P(1) = 2 * B(1) /\ P(2) = 4 * B(2) /\ P(3) = 8 * B(3)
        /\ P(4) = 16 * B(4) /\ P(5) = 32 * B(5) /\ P(6) = 64 * B(6) /\ P(7) = 128 * B(7)
        BY <2>1, <2>2
  <2>5. Eight(S, F) = P(0) + P(1) + P(2) + P(3) + P(4) + P(5) + P(6) + P(7)
        BY DEF Eight
  <2> HIDE DEF P
  <2>6. QED  BY <2>3, <2>4, <2>5
<1>11. QED  BY <1>1, <1>9, <1>10 DEF it

\* And so is what modbus_get_byte_from_bits returns.
LEMMA GetByteIsByte ==
    ASSUME NEW index \in Nat, NEW n \in 1 .. 8, NEW bits \in [1 .. n -> {0, 1}],
           \A k \in 0 .. n - 1 : tab_bits[index + k] = bits[k + 1]
    PROVE  get_byte_from_bits(index, n) = ByteAt(bits, n, 0)
<1> DEFINE S == 0 .. n - 1
           V(k) == tab_bits[index + k] * 2 ^ k
           F == [k \in 0 .. 7 |-> IF k \in S THEN V(k) ELSE 0]
           E(it) == it = [s \in SUBSET S |->
                       IF s = {} THEN 0 ELSE V(Some(s)) + it[s \ {Some(s)}]]
<1>1. get_byte_from_bits(index, n) = (CHOOSE it : E(it))[S]
      BY DEF get_byte_from_bits, MapThenSumSet, MapThenFoldSet, Some
<1>2. S \in SUBSET (0 .. 7) /\ n \in Nat
      OBVIOUS
<1> DEFINE B(k) == BitAt(bits, n, k)
<1>3. \A k \in 0 .. 7 : B(k) \in {0, 1} /\ 2 ^ k \in Nat
  <2>1. ASSUME NEW k \in 0 .. 7 PROVE B(k) \in {0, 1}
    <3>1. k \in Nat
          OBVIOUS
    <3>2. QED  BY <1>2, <3>1, BitAtFacts, Zenon
  <2>2. QED  BY <2>1, PowerIsNat, Zenon
<1>4. \A k \in S : V(k) = B(k) * 2 ^ k
      BY DEF BitAt
<1>5. \A k \in (0 .. 7) \ S : B(k) = 0
      BY DEF BitAt
<1> HIDE DEF B, V, S
<1>6. \A k \in S : V(k) = IF B(k) = 0 THEN 0 ELSE 2 ^ k
      BY <1>2, <1>3, <1>4
<1>7. ASSUME NEW k \in 0 .. 7
      PROVE  F[k] = (IF B(k) = 0 THEN 0 ELSE 2 ^ k) /\ F[k] \in Nat
  <2>1. F[k] = IF k \in S THEN V(k) ELSE 0
        OBVIOUS
  <2> HIDE DEF F
  <2>2. F[k] = IF B(k) = 0 THEN 0 ELSE 2 ^ k
        BY <1>5, <1>6, <2>1
  <2>3. 2 ^ k \in Nat /\ 0 \in Nat
        BY <1>3
  <2>4. QED  BY <2>2, <2>3, Zenon
<1>8. F \in [0 .. 7 -> Nat] /\ \A k \in S : V(k) = F[k]
      BY <1>2, <1>6, <1>7
<1>9. \A s \in SUBSET S : s # {} => V(Some(s)) = F[Some(s)]
      BY <1>8 DEF Some
<1> HIDE DEF F
<1>10. \E it : E(it)
  <2>1. PICK it : it = [s \in SUBSET S |->
                     IF s = {} THEN 0 ELSE F[Some(s)] + it[s \ {Some(s)}]]
        BY <1>2, <1>8, SumExists, Zenon
  <2>2. E(it)
        BY <1>9, <2>1
  <2>3. QED  BY <2>2, Zenon
<1> DEFINE it == CHOOSE f : E(f)
<1>11. E(it)
       BY <1>10, Zenon
<1> HIDE DEF it
<1>12. \A s \in SUBSET S : it[s] = IF s = {} THEN 0 ELSE F[Some(s)] + it[s \ {Some(s)}]
       BY <1>9, <1>11
<1>13. it[S] = Eight(S, F)
       BY <1>2, <1>8, <1>12, SumIsEight
<1>14. Eight(S, F) = ByteAt(bits, n, 0)
  <2>1. ByteAt(bits, n, 0) = B(0) + 2 * B(1) + 4 * B(2) + 8 * B(3) + 16 * B(4)
                             + 32 * B(5) + 64 * B(6) + 128 * B(7)
        BY DEF ByteAt, B
  <2> DEFINE P(k) == Part(S, F, k)
  <2>2. \A k \in 0 .. 7 : P(k) = (IF B(k) = 0 THEN 0 ELSE 2 ^ k)
        BY <1>5, <1>7 DEF Part
  <2>3. /\ P(0) = B(0) /\ P(1) = 2 * B(1) /\ P(2) = 4 * B(2) /\ P(3) = 8 * B(3)
        /\ P(4) = 16 * B(4) /\ P(5) = 32 * B(5) /\ P(6) = 64 * B(6) /\ P(7) = 128 * B(7)
        BY <1>3, <2>2
  <2>4. Eight(S, F) = P(0) + P(1) + P(2) + P(3) + P(4) + P(5) + P(6) + P(7)
        BY DEF Eight
  <2> HIDE DEF P
  <2>5. QED  BY <2>1, <2>3, <2>4
<1>15. QED  BY <1>1, <1>13, <1>14 DEF it

-----------------------------------------------------------------------------
\* The bytes full after m bits, and the one that is not.
Acc(bits, m) == [rsp   |-> [i \in 1 .. m \div 8 |-> ByteAt(bits, m, i - 1)],
                 byte  |-> ByteAt(bits, m, m \div 8),
                 shift |-> m % 8]

First == [rsp |-> <<>>, byte |-> 0, shift |-> 0]

LEMMA ByteIsInt ==
    ASSUME NEW n \in Nat, NEW bits, \A j \in 0 .. n - 1 : bits[j + 1] \in {0, 1},
           NEW q \in Nat
    PROVE  ByteAt(bits, n, q) \in Int
<1> DEFINE B(k) == BitAt(bits, n, 8 * q + k)
<1>1. \A k \in 0 .. 7 : B(k) \in Int
      BY DEF BitAt
<1>2. ByteAt(bits, n, q) = B(0) + 2 * B(1) + 4 * B(2) + 8 * B(3) + 16 * B(4)
                           + 32 * B(5) + 64 * B(6) + 128 * B(7)
      BY DEF ByteAt
<1> HIDE DEF B
<1>3. QED  BY <1>1, <1>2

\* One bit more changes only the byte it belongs to.
LEMMA ByteOfNext ==
    ASSUME NEW m \in Nat, NEW bits, \A j \in 0 .. m : bits[j + 1] \in {0, 1},
           NEW q \in 0 .. m \div 8
    PROVE  ByteAt(bits, m + 1, q)
             = ByteAt(bits, m, q)
               + (IF q = m \div 8 THEN bits[m + 1] * 2 ^ (m % 8) ELSE 0)
<1> DEFINE B(k) == BitAt(bits, m, 8 * q + k)
           C(k) == BitAt(bits, m + 1, 8 * q + k)
           r == m % 8
           b == bits[m + 1]
<1>1. b \in 0 .. 1 /\ r \in 0 .. 7 /\ m = 8 * (m \div 8) + r /\ q \in Nat
      OBVIOUS
<1>2. \A k \in 0 .. 7 : B(k) \in 0 .. 1 /\ C(k) \in 0 .. 1
      BY <1>1 DEF BitAt
<1>3. \A k \in 0 .. 7 : 8 * q + k # m => C(k) = B(k)
      BY <1>1 DEF BitAt
<1>4. \A k \in 0 .. 7 : 8 * q + k = m => B(k) = 0 /\ C(k) = b
      BY <1>1 DEF BitAt
<1>5. /\ ByteAt(bits, m, q) = B(0) + 2 * B(1) + 4 * B(2) + 8 * B(3) + 16 * B(4)
                              + 32 * B(5) + 64 * B(6) + 128 * B(7)
      /\ ByteAt(bits, m + 1, q) = C(0) + 2 * C(1) + 4 * C(2) + 8 * C(3) + 16 * C(4)
                                  + 32 * C(5) + 64 * C(6) + 128 * C(7)
      BY <1>1 DEF ByteAt
<1> HIDE DEF B, C, b
<1>6. CASE q # m \div 8
  <2>1. \A k \in 0 .. 7 : 8 * q + k # m
        BY <1>1, <1>6
  <2>2. QED  BY <1>2, <1>3, <1>5, <1>6, <2>1
<1>7. CASE q = m \div 8
  <2>1. \A k \in 0 .. 7 : 8 * q + k = m <=> k = r
        BY <1>1, <1>7
  <2>2. \A k \in 0 .. 7 : IF k = r THEN B(k) = 0 /\ C(k) = b ELSE C(k) = B(k)
        BY <1>3, <1>4, <2>1
  <2>3. b * 2 ^ r = IF b = 0 THEN 0 ELSE 2 ^ r
        BY <1>1, PowerIsNat
  <2> HIDE DEF r
  <2>4. r = 0 \/ r = 1 \/ r = 2 \/ r = 3 \/ r = 4 \/ r = 5 \/ r = 6 \/ r = 7
        BY <1>1
  <2>5. ByteAt(bits, m + 1, q) = ByteAt(bits, m, q) + b * 2 ^ r
    <3>1. CASE r = 0  BY <1>1, <1>2, <1>5, <2>2, <2>3, <3>1
    <3>2. CASE r = 1  BY <1>1, <1>2, <1>5, <2>2, <2>3, <3>2
    <3>3. CASE r = 2  BY <1>1, <1>2, <1>5, <2>2, <2>3, <3>3
    <3>4. CASE r = 3  BY <1>1, <1>2, <1>5, <2>2, <2>3, <3>4
    <3>5. CASE r = 4  BY <1>1, <1>2, <1>5, <2>2, <2>3, <3>5
    <3>6. CASE r = 5  BY <1>1, <1>2, <1>5, <2>2, <2>3, <3>6
    <3>7. CASE r = 6  BY <1>1, <1>2, <1>5, <2>2, <2>3, <3>7
    <3>8. CASE r = 7  BY <1>1, <1>2, <1>5, <2>2, <2>3, <3>8
    <3>9. QED  BY <2>4, <3>1, <3>2, <3>3, <3>4, <3>5, <3>6, <3>7, <3>8, Zenon
  <2>6. QED  BY <1>7, <2>5 DEF r, b
<1>8. QED  BY <1>6, <1>7

LEMMA AppendIsFunction ==
    ASSUME NEW s \in Seq(Int), NEW e \in Int
    PROVE  Append(s, e) = [i \in 1 .. Len(s) + 1 |-> IF i = Len(s) + 1 THEN e ELSE s[i]]
<1> DEFINE a == Append(s, e)
           n == Len(s) + 1
<1>1. /\ a \in Seq(Int) /\ Len(a) = n /\ n \in Nat
      /\ \A i \in 1 .. n : a[i] = IF i = n THEN e ELSE s[i]
      OBVIOUS
<1> HIDE DEF a, n
<1>2. a = [i \in 1 .. n |-> a[i]]
      BY <1>1
<1>3. a = [i \in 1 .. n |-> IF i = n THEN e ELSE s[i]]
      BY <1>1, <1>2, Zenon
<1>4. QED  BY <1>3 DEF a, n

LEMMA NextAcc ==
    ASSUME NEW m \in Nat, NEW bits, \A j \in 0 .. m : bits[j + 1] \in {0, 1}
    PROVE  AddBit(Acc(bits, m), bits[m + 1]) = Acc(bits, m + 1)
<1> DEFINE q == m \div 8
           r == m % 8
           byte == ByteAt(bits, m, q) + bits[m + 1] * 2 ^ r
           rsp  == [i \in 1 .. q |-> ByteAt(bits, m, i - 1)]
<1>1. q \in Nat /\ r \in 0 .. 7 /\ m = 8 * q + r
      OBVIOUS
<1>2. byte = ByteAt(bits, m + 1, q)
      BY <1>1, ByteOfNext
<1>3. rsp = [i \in 1 .. q |-> ByteAt(bits, m + 1, i - 1)]
  <2>1. ASSUME NEW i \in 1 .. q
        PROVE  ByteAt(bits, m, i - 1) = ByteAt(bits, m + 1, i - 1)
    <3> DEFINE p == i - 1
    <3>1. p \in 0 .. m \div 8 /\ p # m \div 8 /\ p \in Nat
          BY <1>1
    <3> HIDE DEF p
    <3>2. ByteAt(bits, m + 1, p) = ByteAt(bits, m, p) + 0
          BY <3>1, ByteOfNext
    <3>3. ByteAt(bits, m, p) \in Int
      <4>1. \A j \in 0 .. m - 1 : bits[j + 1] \in {0, 1}
            OBVIOUS
      <4>2. QED  BY <3>1, <4>1, ByteIsInt
    <3>4. QED  BY <3>2, <3>3 DEF p
  <2>2. QED  BY <2>1, Zenon
<1>4. rsp \in Seq(Int) /\ Len(rsp) = q
  <2>1. ASSUME NEW i \in 1 .. q PROVE ByteAt(bits, m, i - 1) \in Int
    <3>1. \A j \in 0 .. m - 1 : bits[j + 1] \in {0, 1}
          OBVIOUS
    <3>2. i - 1 \in Nat
          BY <1>1
    <3>3. QED  BY <3>1, <3>2, ByteIsInt
  <2>2. QED  BY <1>1, <2>1
<1>5. /\ Acc(bits, m).rsp = rsp /\ Acc(bits, m).byte = ByteAt(bits, m, q)
      /\ Acc(bits, m).shift = r
      BY DEF Acc
<1>6. CASE r = 7
  <2>1. (m + 1) \div 8 = q + 1 /\ (m + 1) % 8 = 0
        BY <1>1, <1>6
  <2>2. AddBit(Acc(bits, m), bits[m + 1]) = [rsp |-> Append(rsp, byte), byte |-> 0, shift |-> 0]
        BY <1>5, <1>6 DEF AddBit
  <2>3. ByteAt(bits, m + 1, q + 1) = 0
    <3>1. \A k \in 0 .. 7 : BitAt(bits, m + 1, 8 * (q + 1) + k) = 0
          BY <1>1, <1>6 DEF BitAt
    <3>2. 8 * (q + 1) + 0 = 8 * (q + 1)
          BY <1>1
    <3>3. QED  BY <3>1, <3>2 DEF ByteAt
  <2>6. byte \in Int
    <3>1. \A j \in 0 .. (m + 1) - 1 : bits[j + 1] \in {0, 1}
          OBVIOUS
    <3>2. m + 1 \in Nat
          OBVIOUS
    <3>3. QED  BY <1>1, <1>2, <3>1, <3>2, ByteIsInt
  <2>4. Append(rsp, byte) = [i \in 1 .. q + 1 |-> ByteAt(bits, m + 1, i - 1)]
    <3> DEFINE f(i) == ByteAt(bits, m + 1, i - 1)
    <3>1. f(q + 1) = byte
      <4>1. (q + 1) - 1 = q
            BY <1>1
      <4>2. QED  BY <1>2, <4>1, Zenon
    <3>2. rsp = [i \in 1 .. q |-> f(i)]
          BY <1>3
    <3> HIDE DEF f, rsp, byte, q
    <3>3. Append(rsp, byte) = [i \in 1 .. q + 1 |-> IF i = q + 1 THEN byte ELSE rsp[i]]
      <4>1. Append(rsp, byte) = [i \in 1 .. Len(rsp) + 1 |->
                                    IF i = Len(rsp) + 1 THEN byte ELSE rsp[i]]
            BY <1>4, <2>6, AppendIsFunction, Zenon
      <4>2. Len(rsp) = q
            BY <1>4
      <4>3. QED  BY <4>1, <4>2, Zenon
    <3>4. \A i \in 1 .. q + 1 : (IF i = q + 1 THEN byte ELSE rsp[i]) = f(i)
          BY <1>1, <3>1, <3>2
    <3>5. Append(rsp, byte) = [i \in 1 .. q + 1 |-> f(i)]
          BY <3>3, <3>4, Zenon
    <3>6. QED  BY <3>5 DEF f
  <2>5. QED  BY <2>1, <2>2, <2>3, <2>4, Zenon DEF Acc
<1>7. CASE r # 7
  <2>1. (m + 1) \div 8 = q /\ (m + 1) % 8 = r + 1
        BY <1>1, <1>7
  <2>2. AddBit(Acc(bits, m), bits[m + 1]) = [rsp |-> rsp, byte |-> byte, shift |-> r + 1]
        BY <1>5, <1>7 DEF AddBit
  <2>3. QED  BY <1>2, <1>3, <2>1, <2>2, Zenon DEF Acc
<1>8. QED  BY <1>6, <1>7

\* The recursion of FoldLeft: from the first element on, since the last is the
\* greatest index.
Folds(it, bits, n) ==
    it = [s \in SUBSET (1 .. n) |->
            IF s = {} THEN First ELSE AddBit(it[s \ {Max(s)}], bits[Max(s)])]

LEMMA FoldExists ==
    ASSUME NEW bits, NEW n \in Nat
    PROVE  \E it : Folds(it, bits, n)
<1> DEFINE T == {m \in Nat : ~ \E it : Folds(it, bits, m)}
<1>1. SUFFICES ASSUME T # {} PROVE FALSE
      OBVIOUS
<1>2. PICK m \in T : \A k \in T : m <= k
      BY <1>1, Least
<1>3. m # 0
  <2> DEFINE it == [s \in SUBSET (1 .. 0) |-> First]
  <2>1. \A s \in SUBSET (1 .. 0) : s = {}
        OBVIOUS
  <2>2. Folds(it, bits, 0)
        BY <2>1 DEF Folds
  <2> HIDE DEF it
  <2>3. QED  BY <2>2
<1>4. m - 1 \in Nat /\ m \in Nat
      BY <1>3
<1>5. PICK g : Folds(g, bits, m - 1)
  <2>1. m - 1 \notin T
        BY <1>2, <1>4
  <2>2. QED  BY <1>4, <2>1
<1> HIDE DEF T
<1> DEFINE G(s) == IF s = {} THEN First ELSE AddBit(g[s \ {Max(s)}], bits[Max(s)])
           h == [s \in SUBSET (1 .. m) |-> G(s)]
<1>6. \A s \in SUBSET (1 .. m - 1) : g[s] = G(s)
      BY <1>5 DEF Folds
<1>7. ASSUME NEW s \in SUBSET (1 .. m), s # {}
      PROVE  s \ {Max(s)} \in SUBSET (1 .. m - 1)
  <2>1. ASSUME m \in s PROVE Max(s) = m
    <3>1. \A y \in s : m >= y
          BY <1>4
    <3>2. \A x \in s : (\A y \in s : x >= y) => x = m
          BY <1>4, <2>1
    <3>3. QED  BY <2>1, <3>1, <3>2 DEF Max
  <2> DEFINE x == Max(s)
  <2>2. m \in s => x = m
        BY <2>1
  <2> HIDE DEF x
  <2>3. ASSUME NEW y \in s \ {x} PROVE y \in 1 .. m - 1
    <3>1. y \in 1 .. m /\ y # m
          BY <2>2
    <3>2. QED  BY <1>4, <3>1
  <2>4. QED  BY <2>3 DEF x
<1>8. \A s \in SUBSET (1 .. m) : s # {} => h[s \ {Max(s)}] = g[s \ {Max(s)}]
  <2>1. SUBSET (1 .. m - 1) \subseteq SUBSET (1 .. m)
        BY <1>4
  <2> HIDE DEF G
  <2>2. \A s \in SUBSET (1 .. m - 1) : h[s] = g[s]
        BY <1>6, <2>1
  <2>3. QED  BY <1>7, <2>2
<1>9. \A s \in SUBSET (1 .. m) :
         G(s) = IF s = {} THEN First ELSE AddBit(h[s \ {Max(s)}], bits[Max(s)])
  <2> HIDE DEF h
  <2>1. QED  BY <1>8, Zenon
<1>10. Folds(h, bits, m)
  <2>1. h = [s \in SUBSET (1 .. m) |-> G(s)]
        OBVIOUS
  <2> HIDE DEF h, G
  <2>2. QED  BY <1>9, <2>1, Zenon DEF Folds
<1> HIDE DEF h
<1>11. QED  BY <1>2, <1>10 DEF T

LEMMA BitsOfMessage ==
    ASSUME NEW n \in Nat, NEW bits \in [1 .. n -> {0, 1}], NEW j \in 0 .. n - 1
    PROVE  bits[j + 1] \in {0, 1}
OBVIOUS

LEMMA FoldIsAcc ==
    ASSUME NEW n \in Nat, NEW bits, \A j \in 0 .. n - 1 : bits[j + 1] \in {0, 1},
           NEW it, Folds(it, bits, n), NEW m \in 0 .. n
    PROVE  it[1 .. m] = Acc(bits, m)
<1> DEFINE T == {k \in 0 .. n : it[1 .. k] # Acc(bits, k)}
<1>1. SUFFICES ASSUME T # {} PROVE FALSE
      OBVIOUS
<1>2. T \subseteq Nat
      OBVIOUS
<1>3. PICK k \in T : \A j \in T : k <= j
      BY <1>1, <1>2, Least
<1>4. \A s \in SUBSET (1 .. n) :
         it[s] = IF s = {} THEN First ELSE AddBit(it[s \ {Max(s)}], bits[Max(s)])
      BY DEF Folds
<1>5. k # 0
  <2>1. it[{}] = First
        BY <1>4
  <2>2. 1 .. 0 = {} /\ 0 \div 8 = 0 /\ 0 % 8 = 0
        OBVIOUS
  <2>3. ByteAt(bits, 0, 0) = 0
    <3>1. \A j \in Nat : BitAt(bits, 0, j) = 0
          BY DEF BitAt
    <3>2. QED  BY <3>1 DEF ByteAt
  <2>4. [i \in 1 .. 0 |-> ByteAt(bits, 0, i - 1)] = <<>>
        BY <2>2
  <2>5. Acc(bits, 0) = First
        BY <2>2, <2>3, <2>4, Zenon DEF Acc, First
  <2>6. it[1 .. 0] = Acc(bits, 0)
        BY <2>1, <2>2, <2>5, Zenon
  <2>7. QED  BY <2>6
<1> DEFINE p == k - 1
<1>6. p \in 0 .. n /\ p \in Nat /\ p + 1 = k /\ p < k /\ k \in 1 .. n
      BY <1>5
<1>7. it[1 .. p] = Acc(bits, p)
  <2>1. p \notin T
        BY <1>3, <1>6
  <2>2. QED  BY <1>6, <2>1
<1> HIDE DEF p
<1>8. 1 .. k # {} /\ Max(1 .. k) = k /\ (1 .. k) \ {k} = 1 .. p /\ 1 .. k \in SUBSET (1 .. n)
  <2>1. k \in 1 .. k /\ \A y \in 1 .. k : k >= y
        BY <1>6
  <2>2. \A x \in 1 .. k : (\A y \in 1 .. k : x >= y) => x = k
        BY <1>6
  <2>3. Max(1 .. k) = k
        BY <2>1, <2>2 DEF Max
  <2>4. (1 .. k) \ {k} = 1 .. p
        BY <1>6
  <2>5. 1 .. k \in SUBSET (1 .. n)
        BY <1>6
  <2>6. QED  BY <2>1, <2>3, <2>4, <2>5
<1>9. it[1 .. k] = AddBit(it[1 .. p], bits[k])
      BY <1>4, <1>8, Zenon
<1>10. AddBit(Acc(bits, p), bits[p + 1]) = Acc(bits, p + 1)
  <2>1. \A j \in 0 .. p : bits[j + 1] \in {0, 1}
        BY <1>6
  <2>2. QED  BY <1>6, <2>1, NextAcc
<1>11. it[1 .. k] = Acc(bits, k)
       BY <1>6, <1>7, <1>9, <1>10, Zenon
<1>12. QED  BY <1>3, <1>11

LEMMA FoldLeftIsAcc ==
    ASSUME NEW n \in Nat, NEW bits \in [1 .. n -> {0, 1}]
    PROVE  FoldLeft(AddBit, First, bits) = Acc(bits, n)
<1> DEFINE E(it) == it = [s \in SUBSET (1 .. n) |->
               IF s = {} THEN First ELSE AddBit(it[s \ {Max(s)}], bits[Max(s)])]
           it  == CHOOSE f : E(f)
<1>1. DOMAIN bits = 1 .. n
      OBVIOUS
<1>2. FoldLeft(AddBit, First, bits) = it[1 .. n]
      BY <1>1 DEF FoldLeft, MapThenFoldSet
<1>3. Folds(it, bits, n)
  <2>1. PICK f : Folds(f, bits, n)
        BY FoldExists, Zenon
  <2>2. \E g : E(g)
        BY <2>1, Zenon DEF Folds
  <2>3. E(it)
        BY <2>2, Zenon
  <2>4. QED  BY <2>3, Zenon DEF Folds
<1>4. \A j \in 0 .. n - 1 : bits[j + 1] \in {0, 1}
      BY BitsOfMessage, Zenon
<1>5. n \in 0 .. n
      OBVIOUS
<1> HIDE DEF it, E
<1>6. it[1 .. n] = Acc(bits, n)
      BY <1>3, <1>4, <1>5, FoldIsAcc
<1>7. QED  BY <1>2, <1>6, Zenon

\* response_io_status packs as the protocol says.
LEMMA ResponsePacks ==
    ASSUME NEW n \in Nat, NEW address, NEW bits \in [1 .. n -> {0, 1}],
           bits = [k \in 1 .. n |-> tab_bits[address + k - 1]]
    PROVE  response_io_status(address, n) = PackedBits(bits, n)
<1> DEFINE all == FoldLeft(AddBit, First, bits)
<1>3. \A j \in 0 .. n - 1 : bits[j + 1] \in {0, 1}
      BY BitsOfMessage, Zenon
<1>4. all = Acc(bits, n)
      BY FoldLeftIsAcc, Zenon
<1> HIDE DEF all
<1>5. response_io_status(address, n)
         = IF all.shift # 0 THEN Append(all.rsp, all.byte) ELSE all.rsp
      BY Zenon DEF response_io_status, First, all
<1> DEFINE q == n \div 8
<1>6. q \in Nat /\ n % 8 \in Nat
      OBVIOUS
<1>7. /\ all.rsp = [i \in 1 .. q |-> ByteAt(bits, n, i - 1)]
      /\ all.byte = ByteAt(bits, n, q) /\ all.shift = n % 8
      BY <1>4 DEF Acc
<1>8. CASE n % 8 = 0
  <2>1. BytesFor(n) = q
        BY <1>8 DEF BytesFor
  <2>2. QED  BY <1>5, <1>7, <1>8, <2>1, Zenon DEF PackedBits
<1>9. CASE n % 8 # 0
  <2>1. BytesFor(n) = q + 1
        BY <1>9 DEF BytesFor
  <2> DEFINE f(i) == ByteAt(bits, n, i - 1)
  <2>2. \A i \in 1 .. q + 1 : f(i) \in Int
    <3>1. TAKE i \in 1 .. q + 1
    <3>2. i - 1 \in Nat
          BY <1>6
    <3>3. QED  BY <1>3, <3>2, ByteIsInt
  <2>3. f(q + 1) = all.byte
    <3>1. (q + 1) - 1 = q
          BY <1>6
    <3>2. QED  BY <1>7, <3>1, Zenon
  <2>4. all.rsp = [i \in 1 .. q |-> f(i)]
        BY <1>7
  <2> HIDE DEF f, q
  <2>5. all.rsp \in Seq(Int) /\ Len(all.rsp) = q
        BY <1>6, <2>2, <2>4
  <2>6. all.byte \in Int
        BY <1>6, <2>2, <2>3
  <2>7. Append(all.rsp, all.byte)
           = [i \in 1 .. q + 1 |-> IF i = q + 1 THEN all.byte ELSE all.rsp[i]]
    <3>1. Append(all.rsp, all.byte) = [i \in 1 .. Len(all.rsp) + 1 |->
                           IF i = Len(all.rsp) + 1 THEN all.byte ELSE all.rsp[i]]
          BY <2>5, <2>6, AppendIsFunction, Zenon
    <3>2. QED  BY <2>5, <3>1, Zenon
  <2>8. \A i \in 1 .. q + 1 : (IF i = q + 1 THEN all.byte ELSE all.rsp[i]) = f(i)
        BY <1>6, <2>3, <2>4
  <2>9. Append(all.rsp, all.byte) = [i \in 1 .. q + 1 |-> f(i)]
        BY <2>7, <2>8, Zenon
  <2>10. PackedBits(bits, n) = [i \in 1 .. q + 1 |-> f(i)]
        BY <2>1, Zenon DEF PackedBits, f
  <2>11. QED  BY <1>5, <1>7, <1>9, <2>9, <2>10, Zenon
<1>10. QED  BY <1>8, <1>9

LEMMA WriteBitsPacks ==
    ASSUME NEW n \in Nat, NEW src \in [1 .. n -> {0, 1}], Len(src) = n
    PROVE  write_bits(src) = PackedBits(src, n)
<1>1. \A i \in 1 .. BytesFor(n) : write_bits(src)[i] = ByteAt(src, n, i - 1)
      BY WriteBitsByte
<1>2. write_bits(src) = [i \in 1 .. BytesFor(n) |-> write_bits(src)[i]]
      BY Zenon DEF write_bits
<1>3. QED  BY <1>1, <1>2, Zenon DEF PackedBits

-----------------------------------------------------------------------------
(***************************************************************************)
(* Bits: what a call stores, what it reads.                                *)
(***************************************************************************)
LEMMA LenOfBits ==
    ASSUME NEW n \in Nat, NEW bits \in [1 .. n -> {0, 1}]
    PROVE  Len(bits) = n
OBVIOUS

\* A client takes the bits of an answer as they were packed.
LEMMA ReadUnpacks ==
    ASSUME NEW n \in Nat, NEW bits \in [1 .. n -> {0, 1}]
    PROVE  read_io_status(PackedBits(bits, n), n) = bits
<1> DEFINE rsp == PackedBits(bits, n)
           m   == 8 * BytesFor(n)
<1>1. BytesFor(n) \in Nat /\ n <= m
      BY BytesForFacts
<1>2. Len(rsp) = BytesFor(n)
  <2>1. ASSUME NEW i \in 1 .. BytesFor(n) PROVE ByteAt(bits, n, i - 1) \in Int
    <3>1. \A j \in 0 .. n - 1 : bits[j + 1] \in {0, 1}
          BY BitsOfMessage, Zenon
    <3>2. i - 1 \in Nat
          BY <1>1
    <3>3. QED  BY <3>1, <3>2, ByteIsInt
  <2> DEFINE f(i) == ByteAt(bits, n, i - 1)
  <2>2. rsp = [i \in 1 .. BytesFor(n) |-> f(i)]
        BY DEF PackedBits
  <2> HIDE DEF f, rsp
  <2>3. QED  BY <1>1, <2>2
<1>3. Min({n, 8 * Len(rsp)}) = n
  <2> HIDE DEF rsp
  <2>1. 8 * Len(rsp) = m
        BY <1>2
  <2> HIDE DEF m
  <2>2. n \in {n, m} /\ \A y \in {n, m} : n <= y
        BY <1>1
  <2>3. \A x \in {n, m} : (\A y \in {n, m} : x <= y) => x = n
    <3>1. m \in Int
          BY <1>1 DEF m
    <3>2. QED  BY <1>1, <3>1
  <2>4. QED  BY <2>1, <2>2, <2>3 DEF Min
<1> HIDE DEF rsp
<1>4. ASSUME NEW pos \in 1 .. n
      PROVE  Bit(rsp[(pos - 1) \div 8 + 1], (pos - 1) % 8) = bits[pos]
  <2> DEFINE j == pos - 1
  <2>1. j \in 0 .. n - 1 /\ j + 1 = pos
        OBVIOUS
  <2> HIDE DEF j
  <2>2. Bit(rsp[j \div 8 + 1], j % 8) = bits[j + 1]
        BY <2>1, Unpacked DEF rsp
  <2>3. QED  BY <2>1, <2>2, Zenon DEF j
<1>5. read_io_status(rsp, n)
        = [pos \in 1 .. n |-> Bit(rsp[(pos - 1) \div 8 + 1], (pos - 1) % 8)]
      BY <1>3, Zenon DEF read_io_status
<1>6. read_io_status(rsp, n) = [pos \in 1 .. n |-> bits[pos]]
      BY <1>4, <1>5, Zenon
<1>7. bits = [pos \in 1 .. n |-> bits[pos]]
      OBVIOUS
<1>8. QED  BY <1>6, <1>7, Zenon DEF rsp

\* The inductive invariant: the table holds bits, what was sent are bits that
\* fit into it, and nothing was read before.
TabOK == tab_bits \in [0 .. NbBits - 1 -> {0, 1}]

SentOK ==
    \E n \in Nat : /\ sent.bits \in [1 .. n -> {0, 1}]
                   /\ sent.address \in Nat
                   /\ sent.address + n <= NbBits

Unread == sent.bits = <<>> => dest.nb = 0 /\ dest.bits = <<>>

BInv == TabOK /\ SentOK /\ Unread /\ Stored /\ ReadBack

LEMMA InitBInv == InitBits => BInv
<1> SUFFICES ASSUME InitBits PROVE BInv
    OBVIOUS
<1>1. PICK b \in {0, 1} : tab_bits = [i \in 0 .. NbBits - 1 |-> b]
      BY DEF InitBits
<1>2. /\ sent.address = 0 /\ sent.bits = <<>> /\ dest.nb = 0 /\ dest.bits = <<>>
      /\ dest.address = 0 /\ NbBits \in Nat
      BY BitsAssumption DEF InitBits
<1>3. TabOK
      BY <1>1 DEF TabOK
<1>4. SentOK
  <2>1. <<>> \in [1 .. 0 -> {0, 1}]
        OBVIOUS
  <2>2. 0 \in Nat /\ 0 + 0 <= NbBits
        BY <1>2
  <2>3. QED  BY <1>2, <2>1, <2>2, Zenon DEF SentOK
<1>5. Unread
      BY <1>2 DEF Unread
<1>6. Stored
  <2>1. \A i \in 0 .. NbBits - 1 : i \notin 0 .. 0 + 0 - 1
        OBVIOUS
  <2>2. tab_bits = [i \in 0 .. NbBits - 1 |->
            IF i \in 0 .. 0 + 0 - 1 THEN sent.bits[i - sent.address + 1] ELSE b]
        BY <1>1, <2>1
  <2>3. Len(sent.bits) = 0
        BY <1>2
  <2>4. QED  BY <1>2, <2>2, <2>3, Zenon DEF Stored
<1>7. ReadBack
  <2>1. <<>> = [k \in 1 .. 0 |-> tab_bits[dest.address + k - 1]]
        OBVIOUS
  <2>2. QED  BY <1>2, <2>1, Zenon DEF ReadBack
<1>8. QED  BY <1>3, <1>4, <1>5, <1>6, <1>7 DEF BInv

\* Storing n bits from an address on in a table that holds one value.

\* Storing n bits from an address on in a table that holds one value.
LEMMA StoresBits ==
    ASSUME BInv, NEW address \in Nat, NEW n \in Nat, NEW src \in [1 .. n -> {0, 1}],
           sent.bits = <<>>, address + n <= NbBits,
           sent' = [address |-> address, bits |-> src], UNCHANGED dest,
           tab_bits' = [i \in 0 .. NbBits - 1 |->
               IF i \in address .. address + n - 1 THEN src[i - address + 1] ELSE tab_bits[i]]
    PROVE  BInv'
<1>1. NbBits \in Nat
      BY BitsAssumption
<1>2. PICK b \in {0, 1} : \A i \in 0 .. NbBits - 1 : tab_bits[i] = b
  <2>1. sent.address \in Nat /\ Len(sent.bits) = 0
        BY DEF BInv, SentOK
  <2>2. PICK b \in {0, 1} : tab_bits = [i \in 0 .. NbBits - 1 |->
            IF i \in sent.address .. sent.address + Len(sent.bits) - 1
              THEN sent.bits[i - sent.address + 1] ELSE b]
        BY DEF BInv, Stored
  <2>3. \A i \in 0 .. NbBits - 1 : i \notin sent.address .. sent.address + Len(sent.bits) - 1
        BY <2>1
  <2>4. QED  BY <2>2, <2>3
<1>3. sent'.address = address /\ sent'.bits = src /\ Len(src) = n
      BY LenOfBits
<1>4. tab_bits' = [i \in 0 .. NbBits - 1 |->
          IF i \in address .. address + n - 1 THEN src[i - address + 1] ELSE b]
      BY <1>2
<1>5. TabOK'
  <2>1. ASSUME NEW i \in 0 .. NbBits - 1
        PROVE  (IF i \in address .. address + n - 1 THEN src[i - address + 1] ELSE b) \in {0, 1}
    <3>1. CASE i \in address .. address + n - 1
      <4>1. i - address + 1 \in 1 .. n
            BY <3>1
      <4>2. QED  BY <3>1, <4>1
    <3>2. CASE i \notin address .. address + n - 1
          BY <3>2
    <3>3. QED  BY <3>1, <3>2
  <2>2. QED  BY <1>4, <2>1, Zenon DEF TabOK
<1>6. SentOK'
      BY <1>3, Zenon DEF SentOK
<1>7. Stored'
      BY <1>3, <1>4, Zenon DEF Stored
<1>8. dest'.nb = 0 /\ dest'.bits = <<>>
      BY DEF BInv, Unread
<1>9. Unread'
      BY <1>8 DEF Unread
<1>10. ReadBack'
  <2>1. <<>> = [k \in 1 .. 0 |-> tab_bits'[dest'.address + k - 1]]
        OBVIOUS
  <2>2. QED  BY <1>8, <2>1, Zenon DEF ReadBack
<1>11. QED  BY <1>5, <1>6, <1>7, <1>9, <1>10 DEF BInv

\* What write_bits packs, modbus_set_bits_from_bytes stores.
LEMMA WriteStores ==
    ASSUME TabOK, NEW address \in Nat, NEW n \in Nat, NEW src \in [1 .. n -> {0, 1}]
    PROVE  set_bits_from_bytes(address, Len(src), write_bits(src))
             = [i \in 0 .. NbBits - 1 |->
                 IF i \in address .. address + n - 1
                   THEN src[i - address + 1] ELSE tab_bits[i]]
<1>1. Len(src) = n
      BY LenOfBits
<1>2. write_bits(src) = PackedBits(src, n)
      BY <1>1, WriteBitsPacks
<1>3. DOMAIN tab_bits = 0 .. NbBits - 1
      BY DEF TabOK
<1>4. ASSUME NEW i \in address .. address + n - 1
      PROVE  Bit(PackedBits(src, n)[(i - address) \div 8 + 1], (i - address) % 8)
               = src[i - address + 1]
  <2> DEFINE j == i - address
  <2>1. j \in 0 .. n - 1
        OBVIOUS
  <2> HIDE DEF j
  <2>2. Bit(PackedBits(src, n)[j \div 8 + 1], j % 8) = src[j + 1]
        BY <2>1, Unpacked
  <2>3. QED  BY <2>2, Zenon DEF j
<1> DEFINE V(i) == Bit(PackedBits(src, n)[(i - address) \div 8 + 1], (i - address) % 8)
           D == 0 .. NbBits - 1
           I == address .. address + n - 1
<1>5. set_bits_from_bytes(address, Len(src), write_bits(src))
        = [i \in D |-> IF i \in I THEN V(i) ELSE tab_bits[i]]
      BY <1>1, <1>2, <1>3, Zenon DEF set_bits_from_bytes
<1>6. \A i \in I : V(i) = src[i - address + 1]
      BY <1>4, Zenon
<1> HIDE DEF V, D, I
<1>7. QED  BY <1>5, <1>6, Zenon DEF D, I

\* And so does modbus_set_bits_from_byte with its byte.
LEMMA BitIsBit ==
    ASSUME NEW value \in Nat, NEW k \in 0 .. 7
    PROVE  Bit(value, k) \in {0, 1}
<1> DEFINE v == value \div 2 ^ k
<1>1. v \in Nat
  <2>1. k = 0 \/ k = 1 \/ k = 2 \/ k = 3 \/ k = 4 \/ k = 5 \/ k = 6 \/ k = 7
        OBVIOUS
  <2>2. CASE k = 0  BY <2>2
  <2>3. CASE k = 1  BY <2>3
  <2>4. CASE k = 2  BY <2>4
  <2>5. CASE k = 3  BY <2>5
  <2>6. CASE k = 4  BY <2>6
  <2>7. CASE k = 5  BY <2>7
  <2>8. CASE k = 6  BY <2>8
  <2>9. CASE k = 7  BY <2>9
  <2>10. QED  BY <2>1, <2>2, <2>3, <2>4, <2>5, <2>6, <2>7, <2>8, <2>9, Zenon
<1> HIDE DEF v
<1>2. v % 2 \in {0, 1}
      BY <1>1
<1>3. QED  BY <1>2, Zenon DEF Bit, v

LEMMA NextBInv ==
    ASSUME BInv, [NextBits]_bits_vars
    PROVE  BInv'
<1>0. NbBits \in Nat /\ MaxBits \in Nat /\ DOMAIN tab_bits = 0 .. NbBits - 1
      BY BitsAssumption DEF BInv, TabOK
<1>1. ASSUME sent.bits = <<>>, NEW address \in 0 .. NbBits, NEW nb \in 1 .. MaxBits,
             NEW src \in [1 .. nb -> {0, 1}], WriteBits(address, src)
      PROVE  BInv'
  <2>1. address \in Nat /\ nb \in Nat
        BY <1>0
  <2>2. Len(src) = nb
        BY <2>1, LenOfBits
  <2>3. /\ address + nb <= NbBits /\ sent' = [address |-> address, bits |-> src]
        /\ UNCHANGED dest /\ tab_bits' = set_bits_from_bytes(address, Len(src), write_bits(src))
        BY <1>1, <2>2 DEF WriteBits
  <2>4. TabOK
        BY DEF BInv
  <2>5. tab_bits' = [i \in 0 .. NbBits - 1 |->
            IF i \in address .. address + nb - 1 THEN src[i - address + 1] ELSE tab_bits[i]]
        BY <2>1, <2>3, <2>4, WriteStores
  <2>6. QED  BY <1>1, <2>1, <2>3, <2>5, StoresBits
<1>2. ASSUME sent.bits = <<>>, NEW index \in 0 .. NbBits, NEW value \in 0 .. 255,
             SetByte(index, value)
      PROVE  BInv'
  <2> DEFINE src == [k \in 1 .. 8 |-> Bit(value, k - 1)]
  <2>1. index \in Nat /\ 8 \in Nat
        BY <1>0
  <2>2. src \in [1 .. 8 -> {0, 1}]
    <3>1. ASSUME NEW k \in 1 .. 8 PROVE Bit(value, k - 1) \in {0, 1}
      <4>1. k - 1 \in 0 .. 7 /\ value \in Nat
            OBVIOUS
      <4>2. QED  BY <4>1, BitIsBit
    <3>2. QED  BY <3>1, Zenon
  <2>3. /\ index + 8 <= NbBits /\ sent' = [address |-> index, bits |-> src]
        /\ UNCHANGED dest
        BY <1>2 DEF SetByte
  <2>4. \A i \in index .. index + 7 : src[i - index + 1] = Bit(value, i - index)
    <3>1. TAKE i \in index .. index + 7
    <3>2. i - index + 1 \in 1 .. 8 /\ (i - index + 1) - 1 = i - index
          BY <2>1
    <3>3. QED  BY <3>2
  <2>5. index .. index + 7 = index .. index + 8 - 1
        BY <2>1
  <2>6. tab_bits' = [i \in 0 .. NbBits - 1 |->
            IF i \in index .. index + 7 THEN Bit(value, i - index) ELSE tab_bits[i]]
        BY <1>0, <1>2 DEF SetByte, set_bits_from_byte
  <2> HIDE DEF src
  <2>7. tab_bits' = [i \in 0 .. NbBits - 1 |->
            IF i \in index .. index + 8 - 1 THEN src[i - index + 1] ELSE tab_bits[i]]
        BY <2>4, <2>5, <2>6, Zenon
  <2>8. QED  BY <1>2, <2>1, <2>2, <2>3, <2>7, StoresBits
<1>3. ASSUME NEW nb \in 1 .. MaxBits, NEW address \in 0 .. NbBits, ReadBits(address, nb)
      PROVE  BInv'
  <2> DEFINE bits == [k \in 1 .. nb |-> tab_bits[address + k - 1]]
  <2>1. nb \in Nat /\ address \in Nat /\ address + nb <= NbBits
        BY <1>0, <1>3 DEF ReadBits
  <2>2. bits \in [1 .. nb -> {0, 1}]
    <3>1. ASSUME NEW k \in 1 .. nb PROVE tab_bits[address + k - 1] \in {0, 1}
      <4>1. address + k - 1 \in 0 .. NbBits - 1
            BY <1>0, <2>1
      <4>2. QED  BY <4>1 DEF BInv, TabOK
    <3>2. QED  BY <3>1, Zenon
  <2>3. response_io_status(address, nb) = PackedBits(bits, nb)
    <3>1. bits = [k \in 1 .. nb |-> tab_bits[address + k - 1]]
          OBVIOUS
    <3> HIDE DEF bits
    <3>2. QED  BY <2>1, <2>2, <3>1, ResponsePacks, Zenon
  <2>4. read_io_status(response_io_status(address, nb), nb) = bits
        BY <2>1, <2>2, <2>3, ReadUnpacks, Zenon
  <2>5. /\ dest' = [address |-> address, nb |-> nb, bits |-> bits]
        /\ UNCHANGED <<tab_bits, sent>> /\ sent.bits # <<>>
        BY <1>3, <2>4, Zenon DEF ReadBits
  <2>6. dest'.address = address /\ dest'.nb = nb /\ dest'.bits = bits
        BY <2>5
  <2>7. ReadBack'
        BY <2>5, <2>6, Zenon DEF ReadBack
  <2>8. TabOK' /\ SentOK' /\ Stored' /\ Unread'
        BY <2>5 DEF BInv, TabOK, SentOK, Stored, Unread
  <2>9. QED  BY <2>7, <2>8 DEF BInv
<1>4. CASE UNCHANGED bits_vars
  <2>1. UNCHANGED <<tab_bits, sent, dest>>
        BY <1>4 DEF bits_vars
  <2>2. QED  BY <2>1, Zenon DEF BInv, TabOK, SentOK, Stored, Unread, ReadBack
<1>5. QED  BY <1>1, <1>2, <1>3, <1>4 DEF NextBits

\* What was stored is what all three functions that pack would send.
LEMMA BInvPackAlike == BInv => PackAlike
<1> DEFINE src  == sent.bits
           at   == sent.address
<1>1. SUFFICES ASSUME BInv
               PROVE  /\ response_io_status(at, Len(src)) = write_bits(src)
                      /\ Len(src) \in 1 .. 8 =>
                            write_bits(src) = <<get_byte_from_bits(at, Len(src))>>
      BY Zenon DEF PackAlike
<1>2. PICK n \in Nat : src \in [1 .. n -> {0, 1}] /\ at \in Nat /\ at + n <= NbBits
      BY <1>1 DEF BInv, SentOK
<1>3. Len(src) = n
      BY <1>2, LenOfBits
<1>4. PICK b \in {0, 1} : tab_bits =
         [i \in 0 .. NbBits - 1 |->
            IF i \in at .. at + n - 1 THEN src[i - at + 1] ELSE b]
      BY <1>1, <1>3, Zenon DEF BInv, Stored
<1> HIDE DEF src, at
<1>5. ASSUME NEW k \in 0 .. n - 1 PROVE tab_bits[at + k] = src[k + 1]
  <2>1. /\ at + k \in 0 .. NbBits - 1 /\ at + k \in at .. at + n - 1
        /\ (at + k) - at + 1 = k + 1
        BY <1>2, BitsAssumption
  <2>2. QED  BY <1>4, <2>1
<1>6. src = [k \in 1 .. n |-> tab_bits[at + k - 1]]
  <2>1. ASSUME NEW k \in 1 .. n PROVE src[k] = tab_bits[at + k - 1]
    <3> DEFINE j == k - 1
    <3>1. j \in 0 .. n - 1 /\ j + 1 = k /\ at + k - 1 = at + j
          BY <1>2
    <3> HIDE DEF j
    <3>2. QED  BY <1>5, <3>1
  <2>2. src = [k \in 1 .. n |-> src[k]]
        BY <1>2
  <2>3. QED  BY <2>1, <2>2, Zenon
<1>7. write_bits(src) = PackedBits(src, n)
      BY <1>2, <1>3, WriteBitsPacks
<1>8. response_io_status(at, n) = PackedBits(src, n)
      BY <1>2, <1>6, ResponsePacks, Zenon
<1>9. ASSUME n \in 1 .. 8
      PROVE  PackedBits(src, n) = <<get_byte_from_bits(at, n)>>
  <2>1. get_byte_from_bits(at, n) = ByteAt(src, n, 0)
        BY <1>2, <1>5, <1>9, GetByteIsByte
  <2>2. BytesFor(n) = 1
        BY <1>9 DEF BytesFor
  <2> DEFINE x == ByteAt(src, n, 0)
             f(i) == ByteAt(src, n, i - 1)
  <2>3. f(1) = x
        OBVIOUS
  <2>4. PackedBits(src, n) = [i \in 1 .. 1 |-> f(i)]
        BY <2>2, Zenon DEF PackedBits
  <2> HIDE DEF f, x
  <2>5. [i \in 1 .. 1 |-> f(i)] = <<x>>
        BY <2>3
  <2>6. QED  BY <2>1, <2>4, <2>5, Zenon DEF x
<1>10. QED  BY <1>3, <1>7, <1>8, <1>9, Zenon

\* Whatever the address and the number of bits, modulo eight or not, a write of
\* a client (and modbus_set_bits_from_byte of the server program) stores its
\* bits from its address on and leaves all others.
THEOREM BitsStored == SpecBits => []Stored
<1>1. BInv => Stored
      BY DEF BInv
<1>2. QED  BY InitBInv, NextBInv, <1>1, PTL DEF SpecBits

\* A read of any range returns the bits of the range: what response_io_status
\* packs, read_io_status unpacks.
THEOREM BitsReadBack == SpecBits => []ReadBack
<1>1. BInv => ReadBack
      BY DEF BInv
<1>2. QED  BY InitBInv, NextBInv, <1>1, PTL DEF SpecBits

\* The client's modbus_write_bits and the server's response_io_status pack the
\* same bits into the same bytes, and modbus_get_byte_from_bits up to eight.
THEOREM BitsPackedAlike == SpecBits => []PackAlike
<1>1. QED  BY InitBInv, NextBInv, BInvPackAlike, PTL DEF SpecBits

-----------------------------------------------------------------------------
(***************************************************************************)
(* The checksum.  Sets of naturals stand for sums and for whole frames; a  *)
(* shift divides by the polynomial, so that after as many shifts as the    *)
(* frame has bits, what is left of it is the sum.                          *)
(***************************************************************************)
Sums == SUBSET (0 .. 15)

LEMMA SymDiffFacts ==
    ASSUME NEW x, NEW y
    PROVE  /\ \A k : (k \in SymDiff(x, y)) <=> ~((k \in x) <=> (k \in y))
           /\ SymDiff(x, {}) = x /\ SymDiff({}, x) = x /\ SymDiff(x, x) = {}
           /\ SymDiff(x, y) = {} => x = y
           /\ SymDiff(x, y) = SymDiff(y, x)
BY DEF SymDiff

LEMMA SymDiffMembers ==
    ASSUME NEW x, NEW y, NEW k
    PROVE  (k \in SymDiff(x, y)) <=> ~((k \in x) <=> (k \in y))
BY DEF SymDiff

LEMMA SymDiffIn ==
    ASSUME NEW S, NEW x \in SUBSET S, NEW y \in SUBSET S
    PROVE  SymDiff(x, y) \in SUBSET S
BY DEF SymDiff

LEMMA ShiftFacts ==
    ASSUME NEW x \in SUBSET Nat
    PROVE  /\ Shift(x) \in SUBSET Nat
           /\ \A k \in Nat : (k \in Shift(x))
                                <=> ~((k + 1 \in x) <=> (0 \in x /\ k \in {0, 13, 15}))
<1> DEFINE down == {k - 1 : k \in x \ {0}}
           fed == IF 0 \in x THEN {0, 13, 15} ELSE {}
<1>1. ASSUME NEW k \in Nat PROVE (k \in down) <=> (k + 1 \in x)
  <2>1. ASSUME k \in down PROVE k + 1 \in x
    <3>1. PICK n \in x \ {0} : k = n - 1
          BY <2>1
    <3>2. n \in Nat /\ k + 1 = n
          BY <3>1
    <3>3. QED  BY <3>1, <3>2
  <2>2. ASSUME k + 1 \in x PROVE k \in down
    <3>1. k + 1 \in x \ {0} /\ k = (k + 1) - 1
          BY <2>2
    <3>2. QED  BY <3>1
  <2>3. QED  BY <2>1, <2>2
<1>2. down \in SUBSET Nat
  <2>1. ASSUME NEW n \in x \ {0} PROVE n - 1 \in Nat
        OBVIOUS
  <2>2. QED  BY <2>1
<1>3. fed \in SUBSET Nat /\ \A k : (k \in fed) <=> (0 \in x /\ k \in {0, 13, 15})
      OBVIOUS
<1>4. Shift(x) = SymDiff(down, fed)
      BY DEF Shift
<1> HIDE DEF down, fed
<1>5. Shift(x) \in SUBSET Nat
  <2>1. SymDiff(down, fed) \in SUBSET Nat
        BY <1>2, <1>3, SymDiffIn
  <2>2. QED  BY <1>4, <2>1
<1>6. ASSUME NEW k \in Nat
      PROVE  (k \in Shift(x)) <=> ~((k + 1 \in x) <=> (0 \in x /\ k \in {0, 13, 15}))
  <2>1. (k \in Shift(x)) <=> ~((k \in down) <=> (k \in fed))
        BY <1>4, SymDiffMembers
  <2>2. QED  BY <2>1, <1>1, <1>3
<1>7. QED  BY <1>5, <1>6

\* Shifts add up.
LEMMA ShiftOfSum ==
    ASSUME NEW x \in SUBSET Nat, NEW y \in SUBSET Nat
    PROVE  Shift(SymDiff(x, y)) = SymDiff(Shift(x), Shift(y))
<1> DEFINE z == SymDiff(x, y)
<1>1. z \in SUBSET Nat
      BY SymDiffIn
<1>2. \A k : (k \in z) <=> ~((k \in x) <=> (k \in y))
      BY SymDiffMembers
<1>3. Shift(x) \in SUBSET Nat /\ Shift(y) \in SUBSET Nat
      BY ShiftFacts
<1>4. SymDiff(Shift(x), Shift(y)) \in SUBSET Nat
      BY <1>3, SymDiffIn
<1> HIDE DEF z
<1>5. ASSUME NEW k \in Nat PROVE (k \in Shift(z)) <=> (k \in SymDiff(Shift(x), Shift(y)))
  <2>1. (k \in Shift(z)) <=> ~((k + 1 \in z) <=> (0 \in z /\ k \in {0, 13, 15}))
        BY <1>1, ShiftFacts
  <2>2. (k \in Shift(x)) <=> ~((k + 1 \in x) <=> (0 \in x /\ k \in {0, 13, 15}))
        BY ShiftFacts
  <2>3. (k \in Shift(y)) <=> ~((k + 1 \in y) <=> (0 \in y /\ k \in {0, 13, 15}))
        BY ShiftFacts
  <2>4. (k \in SymDiff(Shift(x), Shift(y))) <=> ~((k \in Shift(x)) <=> (k \in Shift(y)))
        BY SymDiffMembers
  <2>5. /\ (k + 1 \in z) <=> ~((k + 1 \in x) <=> (k + 1 \in y))
        /\ (0 \in z) <=> ~((0 \in x) <=> (0 \in y))
        BY <1>2
  <2>6. QED  BY <2>1, <2>2, <2>3, <2>4, <2>5
<1>6. Shift(z) \in SUBSET Nat
      BY <1>1, ShiftFacts
<1>7. Shift(z) = SymDiff(Shift(x), Shift(y))
      BY <1>4, <1>5, <1>6
<1>8. QED  BY <1>7 DEF z

\* A sum stays one, and is lost by no shift.
LEMMA ShiftInSums ==
    ASSUME NEW x \in Sums
    PROVE  /\ Shift(x) \in Sums
           /\ Shift(x) = {} => x = {}
<1>1. x \in SUBSET Nat /\ \A k \in x : k \in 0 .. 15
      BY DEF Sums
<1>2. Shift(x) \in SUBSET Nat
      BY <1>1, ShiftFacts
<1>3. ASSUME NEW k \in Shift(x) PROVE k \in 0 .. 15
  <2>1. k \in Nat
        BY <1>2
  <2>2. ~((k + 1 \in x) <=> (0 \in x /\ k \in {0, 13, 15}))
        BY <1>1, <2>1, ShiftFacts
  <2>3. CASE k + 1 \in x
    <3>1. k + 1 \in 0 .. 15
          BY <1>1, <2>3
    <3>2. QED  BY <2>1, <3>1
  <2>4. CASE k \in {0, 13, 15}
        BY <2>4
  <2>5. QED  BY <2>2, <2>3, <2>4
<1>4. ASSUME Shift(x) = {}, x # {} PROVE FALSE
  <2>1. \A k \in Nat : (k + 1 \in x) <=> (0 \in x /\ k \in {0, 13, 15})
        BY <1>1, <1>4, ShiftFacts
  <2>2. 0 \notin x
    <3>1. 15 \in Nat /\ 15 + 1 = 16 /\ 16 \notin x
          BY <1>1
    <3>2. QED  BY <2>1, <3>1
  <2>3. PICK n \in x : TRUE
        BY <1>4
  <2>4. n \in Nat /\ n # 0
        BY <1>1, <2>2, <2>3
  <2>5. n - 1 \in Nat /\ (n - 1) + 1 = n
        BY <2>4
  <2>6. QED  BY <2>1, <2>2, <2>3, <2>5
<1>5. QED  BY <1>2, <1>3, <1>4 DEF Sums

\* What no bit falls out of moves down.
LEMMA ShiftMoves ==
    ASSUME NEW x \in SUBSET Nat, 0 \notin x
    PROVE  \A k \in Nat : (k \in Shift(x)) <=> (k + 1 \in x)
BY ShiftFacts

-----------------------------------------------------------------------------
LEMMA Counting ==
    ASSUME NEW T, 0 \in T, \A n \in Nat : n \in T => n + 1 \in T
    PROVE  \A n \in Nat : n \in T
<1> DEFINE fails == {n \in Nat : n \notin T}
<1>1. SUFFICES ASSUME fails # {} PROVE FALSE
      OBVIOUS
<1>2. PICK n \in fails : \A k \in fails : n <= k
      BY <1>1, Least
<1>3. n \in Nat /\ n # 0 /\ n \notin T
      BY <1>2
<1>4. n - 1 \in Nat /\ (n - 1) + 1 = n /\ ~(n <= n - 1)
      BY <1>3
<1>5. n - 1 \in T
      BY <1>2, <1>4
<1>6. QED  BY <1>3, <1>4, <1>5

Rules(S) == [Nat -> [S -> S]]

\* What a rule makes of a start, step by step.
Runs(f, S, start, rule) ==
    f \in [Nat -> S] /\ f[0] = start /\ \A n \in Nat : f[n + 1] = rule[n][f[n]]

LEMMA Steps ==
    ASSUME NEW S, NEW start \in S, NEW rule \in Rules(S)
    PROVE  \E f : Runs(f, S, start, rule)
<1>0. rule \in [Nat -> [S -> S]]
      BY DEF Rules
<1> DEFINE Prefix(f, n) == /\ f \in [0 .. n -> S] /\ f[0] = start
                           /\ \A k \in 0 .. n - 1 : f[k + 1] = rule[k][f[k]]
           have == {n \in Nat : \E f : Prefix(f, n)}
<1>1. \A n \in Nat : n \in have
  <2>1. 0 \in have
    <3>1. Prefix([k \in 0 .. 0 |-> start], 0)
          OBVIOUS
    <3>2. QED  BY <3>1
  <2>2. ASSUME NEW n \in Nat, n \in have PROVE n + 1 \in have
    <3>1. PICK f : Prefix(f, n)
          BY <2>2
    <3> DEFINE g == [k \in 0 .. n + 1 |-> IF k = n + 1 THEN rule[n][f[n]] ELSE f[k]]
    <3>2. f[n] \in S /\ rule[n] \in [S -> S]
          BY <1>0, <3>1
    <3>3. g \in [0 .. n + 1 -> S]
          BY <3>1, <3>2
    <3>4. g[0] = start
          BY <3>1
    <3>5. ASSUME NEW k \in 0 .. (n + 1) - 1 PROVE g[k + 1] = rule[k][g[k]]
      <4>1. k # n + 1 /\ k \in 0 .. n /\ k \in 0 .. n + 1 /\ k + 1 \in 0 .. n + 1
            OBVIOUS
      <4>2. g[k] = f[k]
            BY <4>1
      <4>3. CASE k = n
            BY <4>1, <4>2, <4>3
      <4>4. CASE k # n
        <5>1. k \in 0 .. n - 1 /\ k + 1 # n + 1
              BY <4>1, <4>4
        <5>2. g[k + 1] = f[k + 1]
              BY <4>1, <5>1
        <5>3. QED  BY <3>1, <4>2, <5>1, <5>2
      <4>5. QED  BY <4>3, <4>4
    <3> HIDE DEF g
    <3>6. Prefix(g, n + 1)
          BY <3>3, <3>4, <3>5
    <3> HIDE DEF Prefix
    <3>7. QED  BY <3>6
  <2> HIDE DEF have
  <2>3. QED  BY <2>1, <2>2, Counting
<1> DEFINE F(n) == CHOOSE f : Prefix(f, n)
<1>2. \A n \in Nat : Prefix(F(n), n)
  <2> HIDE DEF Prefix
  <2>1. QED  BY <1>1
<1>3. ASSUME NEW n \in Nat PROVE F(n + 1)[n] = F(n)[n]
  <2> DEFINE same == {k \in Nat : k \in 0 .. n => F(n + 1)[k] = F(n)[k]}
  <2> HIDE DEF F, Prefix
  <2>1. Prefix(F(n), n) /\ Prefix(F(n + 1), n + 1)
        BY <1>2
  <2> USE DEF Prefix
  <2>2. 0 \in same
        BY <2>1
  <2>3. ASSUME NEW k \in Nat, k \in same PROVE k + 1 \in same
    <3>1. SUFFICES ASSUME k + 1 \in 0 .. n PROVE F(n + 1)[k + 1] = F(n)[k + 1]
          OBVIOUS
    <3>2. k \in 0 .. n - 1 /\ k \in 0 .. (n + 1) - 1 /\ k \in 0 .. n
          BY <3>1
    <3>3. F(n + 1)[k] = F(n)[k]
          BY <2>3, <3>2
    <3>4. F(n)[k + 1] = rule[k][F(n)[k]]
          BY <2>1, <3>2
    <3>5. F(n + 1)[k + 1] = rule[k][F(n + 1)[k]]
          BY <2>1, <3>2
    <3>6. QED  BY <3>3, <3>4, <3>5
  <2> HIDE DEF Prefix
  <2>4. \A k \in Nat : k \in same
    <3> HIDE DEF same
    <3>1. QED  BY <2>2, <2>3, Counting
  <2>5. n \in 0 .. n
        OBVIOUS
  <2>6. QED  BY <2>4, <2>5
<1>4. ASSUME NEW n \in Nat PROVE F(n + 1)[n + 1] = rule[n][F(n)[n]]
  <2> HIDE DEF F, Prefix
  <2>1. Prefix(F(n + 1), n + 1) /\ n \in 0 .. (n + 1) - 1
        BY <1>2
  <2> USE DEF Prefix
  <2>2. F(n + 1)[n + 1] = rule[n][F(n + 1)[n]]
        BY <2>1
  <2>3. QED  BY <1>3, <2>2
<1>5. F(0)[0] = start /\ \A n \in Nat : F(n)[n] \in S
  <2>1. Prefix(F(0), 0)
        BY <1>2
  <2>2. ASSUME NEW n \in Nat PROVE F(n)[n] \in S
    <3> HIDE DEF F, Prefix
    <3>1. Prefix(F(n), n) /\ n \in 0 .. n
          BY <1>2
    <3> USE DEF Prefix
    <3>2. QED  BY <3>1
  <2> HIDE DEF F
  <2>3. QED  BY <2>1, <2>2
<1> HIDE DEF F
<1> DEFINE h == [n \in Nat |-> F(n)[n]]
<1>6. h \in [Nat -> S]
      BY <1>5
<1>7. h[0] = start /\ \A n \in Nat : h[n + 1] = rule[n][h[n]]
      BY <1>4, <1>5
<1> HIDE DEF h
<1>8. Runs(h, S, start, rule)
      BY <1>6, <1>7 DEF Runs
<1>9. QED  BY <1>8, Zenon

\* What is left of a set after each number of shifts.
Shifts(x) == LET left[n \in Nat] == IF n = 0 THEN x ELSE Shift(left[n - 1])
             IN  left

LEMMA ShiftsFacts ==
    ASSUME NEW x \in SUBSET Nat
    PROVE  /\ Shifts(x)[0] = x
           /\ \A n \in Nat : /\ Shifts(x)[n] \in SUBSET Nat
                             /\ Shifts(x)[n + 1] = Shift(Shifts(x)[n])
<1> DEFINE f == Shifts(x)
           rule == [n \in Nat |-> [y \in SUBSET Nat |-> Shift(y)]]
           typed == {n \in Nat : f[n] \in SUBSET Nat}
<1>1. \A y \in SUBSET Nat : Shift(y) \in SUBSET Nat
      BY ShiftFacts
<1>2. rule \in Rules(SUBSET Nat)
      BY <1>1 DEF Rules
<1>3. \A n \in Nat, y \in SUBSET Nat : rule[n][y] = Shift(y)
      OBVIOUS
<1> HIDE DEF rule
<1>4. PICK g : Runs(g, SUBSET Nat, x, rule)
      BY <1>2, Steps, Zenon
<1>5. \A n \in Nat : n # 0 => n - 1 \in Nat /\ (n - 1) + 1 = n
      OBVIOUS
<1>6. /\ g \in [Nat -> SUBSET Nat] /\ g[0] = x
      /\ \A n \in Nat : g[n] \in SUBSET Nat /\ g[n + 1] = rule[n][g[n]]
      BY <1>4 DEF Runs
<1>7. ASSUME NEW n \in Nat
      PROVE  g[n] = IF n = 0 THEN x ELSE Shift(g[n - 1])
      BY <1>3, <1>5, <1>6
<1>8. g = [n \in Nat |-> g[n]]
      BY <1>6
<1>10. g = [n \in Nat |-> IF n = 0 THEN x ELSE Shift(g[n - 1])]
      BY <1>7, <1>8, Zenon
<1>11. f = [n \in Nat |-> IF n = 0 THEN x ELSE Shift(f[n - 1])]
      BY <1>10, Zenon DEF Shifts
<1> HIDE DEF f
<1>12. f[0] = x /\ \A n \in Nat : n # 0 => f[n] = Shift(f[n - 1])
      BY <1>11, Zenon
<1>13. \A n \in Nat : f[n + 1] = Shift(f[n])
  <2>1. \A n \in Nat : n + 1 \in Nat /\ n + 1 # 0 /\ (n + 1) - 1 = n
        OBVIOUS
  <2>2. QED  BY <1>12, <2>1
<1>14. 0 \in typed /\ \A n \in Nat : n \in typed => n + 1 \in typed
  <2>1. 0 \in typed
        BY <1>12
  <2>2. ASSUME NEW n \in Nat, n \in typed PROVE n + 1 \in typed
    <3>1. n + 1 \in Nat /\ f[n + 1] = Shift(f[n])
          BY <1>13
    <3>2. QED  BY <1>1, <2>2, <3>1
  <2>3. QED  BY <2>1, <2>2
<1>15. \A n \in Nat : n \in typed
  <2> HIDE DEF typed
  <2>1. QED  BY <1>14, Counting
<1>16. \A n \in Nat : f[n] \in SUBSET Nat
      BY <1>15
<1>17. QED  BY <1>12, <1>13, <1>16 DEF f

LEMMA ShiftsOfSum ==
    ASSUME NEW x \in SUBSET Nat, NEW y \in SUBSET Nat
    PROVE  \A n \in Nat : Shifts(SymDiff(x, y))[n] = SymDiff(Shifts(x)[n], Shifts(y)[n])
<1> DEFINE z == SymDiff(x, y)
           T == {n \in Nat : Shifts(z)[n] = SymDiff(Shifts(x)[n], Shifts(y)[n])}
<1>1. z \in SUBSET Nat
      BY SymDiffIn
<1>2. 0 \in T
      BY <1>1, ShiftsFacts
<1>3. ASSUME NEW n \in Nat, n \in T PROVE n + 1 \in T
  <2> HIDE DEF z
  <2>1. /\ Shifts(x)[n] \in SUBSET Nat /\ Shifts(x)[n + 1] = Shift(Shifts(x)[n])
        /\ Shifts(y)[n] \in SUBSET Nat /\ Shifts(y)[n + 1] = Shift(Shifts(y)[n])
        /\ Shifts(z)[n + 1] = Shift(Shifts(z)[n])
        BY <1>1, ShiftsFacts
  <2>2. Shift(SymDiff(Shifts(x)[n], Shifts(y)[n])) = SymDiff(Shifts(x)[n + 1], Shifts(y)[n + 1])
        BY <2>1, ShiftOfSum
  <2>3. QED  BY <1>3, <2>1, <2>2
<1> HIDE DEF T
<1>4. \A n \in Nat : n \in T
      BY <1>2, <1>3, Counting
<1>5. QED  BY <1>4 DEF T

LEMMA ShiftsPlus ==
    ASSUME NEW x \in SUBSET Nat, NEW m \in Nat
    PROVE  \A n \in Nat : Shifts(x)[m + n] = Shifts(Shifts(x)[m])[n]
<1> DEFINE y == Shifts(x)[m]
           T == {n \in Nat : Shifts(x)[m + n] = Shifts(y)[n]}
<1>1. y \in SUBSET Nat
      BY ShiftsFacts
<1>2. 0 \in T
  <2>1. m + 0 = m /\ Shifts(y)[0] = y
        BY <1>1, ShiftsFacts
  <2>2. QED  BY <2>1
<1>3. ASSUME NEW n \in Nat, n \in T PROVE n + 1 \in T
  <2>1. Shifts(x)[m + n] = Shifts(y)[n]
        BY <1>3
  <2> HIDE DEF y
  <2>2. m + n \in Nat /\ m + (n + 1) = (m + n) + 1
        OBVIOUS
  <2>3. Shifts(x)[(m + n) + 1] = Shift(Shifts(x)[m + n])
        BY <2>2, ShiftsFacts
  <2>4. Shifts(y)[n + 1] = Shift(Shifts(y)[n])
        BY <1>1, ShiftsFacts
  <2>5. QED  BY <2>1, <2>2, <2>3, <2>4
<1> HIDE DEF T
<1>4. \A n \in Nat : n \in T
      BY <1>2, <1>3, Counting
<1>5. QED  BY <1>4 DEF T

LEMMA ShiftsInSums ==
    ASSUME NEW x \in Sums
    PROVE  \A n \in Nat : Shifts(x)[n] \in Sums /\ (Shifts(x)[n] = {} => x = {})
<1> DEFINE T == {n \in Nat : Shifts(x)[n] \in Sums /\ (Shifts(x)[n] = {} => x = {})}
<1>1. x \in SUBSET Nat
      BY DEF Sums
<1>2. 0 \in T
      BY <1>1, ShiftsFacts
<1>3. ASSUME NEW n \in Nat, n \in T PROVE n + 1 \in T
  <2>1. Shifts(x)[n + 1] = Shift(Shifts(x)[n])
        BY <1>1, ShiftsFacts
  <2>2. Shifts(x)[n] \in Sums /\ (Shifts(x)[n] = {} => x = {})
        BY <1>3
  <2>3. QED  BY <2>1, <2>2, ShiftInSums
<1> HIDE DEF T
<1>4. \A n \in Nat : n \in T
      BY <1>2, <1>3, Counting
<1>5. QED  BY <1>4 DEF T

\* As long as no bit falls out, the bits move down.
LEMMA ShiftsMove ==
    ASSUME NEW x \in SUBSET Nat, NEW n \in Nat, \A k \in x : k >= n
    PROVE  \A k \in Nat : (k \in Shifts(x)[n]) <=> (k + n \in x)
<1> DEFINE T == {m \in Nat : m <= n =>
                    \A k \in Nat : (k \in Shifts(x)[m]) <=> (k + m \in x)}
<1>1. 0 \in T
  <2>1. Shifts(x)[0] = x /\ \A k \in Nat : k + 0 = k
        BY ShiftsFacts
  <2>2. QED  BY <2>1
<1>2. ASSUME NEW m \in Nat, m \in T PROVE m + 1 \in T
  <2>1. SUFFICES ASSUME m + 1 <= n, NEW k \in Nat
                 PROVE  (k \in Shifts(x)[m + 1]) <=> (k + (m + 1) \in x)
        OBVIOUS
  <2> DEFINE y == Shifts(x)[m]
  <2>2. y \in SUBSET Nat /\ Shifts(x)[m + 1] = Shift(y)
        BY ShiftsFacts
  <2>3. m <= n /\ ~(m >= n)
        BY <2>1
  <2>4. \A j \in Nat : (j \in y) <=> (j + m \in x)
        BY <1>2, <2>3
  <2> HIDE DEF y
  <2>5. 0 \notin y
    <3>1. 0 + m = m /\ m \notin x
          BY <2>3
    <3>2. QED  BY <2>4, <3>1
  <2>6. (k \in Shift(y)) <=> (k + 1 \in y)
        BY <2>2, <2>5, ShiftMoves
  <2>7. k + 1 \in Nat /\ (k + 1) + m = k + (m + 1)
        OBVIOUS
  <2>8. (k + 1 \in y) <=> (k + (m + 1) \in x)
        BY <2>4, <2>7
  <2>9. QED  BY <2>2, <2>6, <2>8
<1> HIDE DEF T
<1>3. n \in T
      BY <1>1, <1>2, Counting
<1>4. n <= n
      OBVIOUS
<1>5. QED  BY <1>3, <1>4 DEF T

LEMMA EightIsShifts ==
    ASSUME NEW x \in SUBSET Nat
    PROVE  FourShifts(FourShifts(x)) = Shifts(x)[8]
<1> DEFINE f == Shifts(x)
<1>1. f[0] = x /\ \A n \in Nat : f[n + 1] = Shift(f[n])
      BY ShiftsFacts
<1> HIDE DEF f
<1>2. /\ 0 + 1 = 1 /\ 1 + 1 = 2 /\ 2 + 1 = 3 /\ 3 + 1 = 4
      /\ 4 + 1 = 5 /\ 5 + 1 = 6 /\ 6 + 1 = 7 /\ 7 + 1 = 8
      OBVIOUS
<1>3. f[1] = Shift(f[0]) /\ f[2] = Shift(f[1]) /\ f[3] = Shift(f[2]) /\ f[4] = Shift(f[3])
      BY <1>1, <1>2
<1>4. f[5] = Shift(f[4]) /\ f[6] = Shift(f[5]) /\ f[7] = Shift(f[6]) /\ f[8] = Shift(f[7])
      BY <1>1, <1>2
<1>5. f[4] = FourShifts(x)
      BY <1>1, <1>3 DEF FourShifts
<1>6. f[8] = FourShifts(f[4])
      BY <1>4 DEF FourShifts
<1>7. QED  BY <1>5, <1>6 DEF f

-----------------------------------------------------------------------------
\* A set has an odd number of bits, or not, whatever is shifted.
Odd(x) == Cardinality(x) % 2 = 1

LEMMA OddToggled ==
    ASSUME NEW x, IsFiniteSet(x), NEW k
    PROVE  /\ IsFiniteSet(SymDiff(x, {k}))
           /\ Odd(SymDiff(x, {k})) <=> ~Odd(x)
<1> DEFINE c == Cardinality(x)
<1>1. c \in Nat
      BY FS_CardinalityType
<1>2. CASE k \in x
  <2>1. SymDiff(x, {k}) = x \ {k}
        BY <1>2 DEF SymDiff
  <2>2. IsFiniteSet(x \ {k}) /\ Cardinality(x \ {k}) = c - 1
        BY <1>2, FS_RemoveElement
  <2> HIDE DEF c
  <2>3. ((c - 1) % 2 = 1) <=> ~(c % 2 = 1)
        BY <1>1
  <2>4. QED  BY <2>1, <2>2, <2>3 DEF Odd, c
<1>3. CASE k \notin x
  <2>1. SymDiff(x, {k}) = x \cup {k}
        BY <1>3 DEF SymDiff
  <2>2. IsFiniteSet(x \cup {k}) /\ Cardinality(x \cup {k}) = c + 1
        BY <1>3, FS_AddElement
  <2> HIDE DEF c
  <2>3. ((c + 1) % 2 = 1) <=> ~(c % 2 = 1)
        BY <1>1
  <2>4. QED  BY <2>1, <2>2, <2>3 DEF Odd, c
<1>4. QED  BY <1>2, <1>3

LEMMA OddMoved ==
    ASSUME NEW x \in SUBSET Nat, IsFiniteSet(x), 0 \notin x
    PROVE  IsFiniteSet(Shift(x)) /\ (Odd(Shift(x)) <=> Odd(x))
<1> DEFINE f == [k \in x |-> k - 1]
<1>1. Shift(x) \in SUBSET Nat /\ \A k \in Nat : (k \in Shift(x)) <=> (k + 1 \in x)
      BY ShiftFacts, ShiftMoves
<1>2. ASSUME NEW k \in x PROVE f[k] \in Shift(x) /\ f[k] + 1 = k
  <2>1. k - 1 \in Nat /\ (k - 1) + 1 = k
        OBVIOUS
  <2>2. QED  BY <1>1, <2>1
<1>3. ASSUME NEW n \in Shift(x) PROVE n + 1 \in x /\ f[n + 1] = n
      BY <1>1
<1>4. f = [k \in x |-> f[k]]
      OBVIOUS
<1> HIDE DEF f
<1>5. f \in [x -> Shift(x)]
      BY <1>2, <1>4
<1>6. \A a, b \in x : f[a] = f[b] => a = b
      BY <1>2
<1>7. \A n \in Shift(x) : \E k \in x : f[k] = n
      BY <1>3
<1>8. f \in Bijection(x, Shift(x))
      BY <1>5, <1>6, <1>7 DEF Bijection, Injection, IsInjective, Surjection
<1>9. ExistsBijection(x, Shift(x))
      BY <1>8 DEF ExistsBijection
<1>10. IsFiniteSet(Shift(x)) /\ Cardinality(Shift(x)) = Cardinality(x)
      BY <1>9, FS_Bijection
<1>11. QED  BY <1>10 DEF Odd

LEMMA OddShifted ==
    ASSUME NEW x \in SUBSET Nat, IsFiniteSet(x)
    PROVE  IsFiniteSet(Shift(x)) /\ (Odd(Shift(x)) <=> Odd(x))
<1>1. CASE 0 \notin x
      BY <1>1, OddMoved
<1>2. CASE 0 \in x
  <2> DEFINE y == SymDiff(x, {0})
             a == Shift(y)  b == SymDiff(a, {0})  c == SymDiff(b, {13})  d == SymDiff(c, {15})
  <2>1. y \in SUBSET Nat /\ 0 \notin y
        BY <1>2 DEF SymDiff
  <2>2. IsFiniteSet(y) /\ (Odd(y) <=> ~Odd(x))
        BY OddToggled
  <2> HIDE DEF y
  <2>3. IsFiniteSet(a) /\ (Odd(a) <=> Odd(y))
        BY <2>1, <2>2, OddMoved
  <2> HIDE DEF a
  <2>4. IsFiniteSet(b) /\ (Odd(b) <=> ~Odd(a))
        BY <2>3, OddToggled
  <2> HIDE DEF b
  <2>5. IsFiniteSet(c) /\ (Odd(c) <=> ~Odd(b))
        BY <2>4, OddToggled
  <2> HIDE DEF c
  <2>6. IsFiniteSet(d) /\ (Odd(d) <=> ~Odd(c))
        BY <2>5, OddToggled
  <2>7. d = SymDiff(a, {0, 13, 15})
    <3>1. {0, 13, 15} = SymDiff(SymDiff({0}, {13}), {15})
          BY DEF SymDiff
    <3>2. \A k : (k \in d) <=> ~(~(~((k \in a) <=> k = 0) <=> k = 13) <=> k = 15)
          BY DEF SymDiff, b, c
    <3>3. \A k : (k \in SymDiff(a, {0, 13, 15})) <=> ~((k \in a) <=> k \in {0, 13, 15})
          BY SymDiffMembers
    <3> HIDE DEF d
    <3>4. QED  BY <3>2, <3>3
  <2> HIDE DEF d
  <2>8. d = Shift(x)
    <3>1. {k - 1 : k \in x \ {0}} = {k - 1 : k \in y \ {0}}
      <4>1. x \ {0} = y \ {0}
            BY DEF y, SymDiff
      <4>2. QED  BY <4>1
    <3>2. a = {k - 1 : k \in y \ {0}}
          BY <2>1 DEF a, Shift, SymDiff
    <3>3. Shift(x) = SymDiff({k - 1 : k \in x \ {0}}, {0, 13, 15})
          BY <1>2 DEF Shift
    <3>4. QED  BY <2>7, <3>1, <3>2, <3>3
  <2>9. QED  BY <2>2, <2>3, <2>4, <2>5, <2>6, <2>8
<1>3. QED  BY <1>1, <1>2

LEMMA OddAfterShifts ==
    ASSUME NEW x \in SUBSET Nat, IsFiniteSet(x)
    PROVE  \A n \in Nat : IsFiniteSet(Shifts(x)[n]) /\ (Odd(Shifts(x)[n]) <=> Odd(x))
<1> DEFINE T == {n \in Nat : IsFiniteSet(Shifts(x)[n]) /\ (Odd(Shifts(x)[n]) <=> Odd(x))}
<1>1. 0 \in T
      BY ShiftsFacts
<1>2. ASSUME NEW n \in Nat, n \in T PROVE n + 1 \in T
  <2>1. Shifts(x)[n] \in SUBSET Nat /\ Shifts(x)[n + 1] = Shift(Shifts(x)[n])
        BY ShiftsFacts
  <2>2. IsFiniteSet(Shifts(x)[n]) /\ (Odd(Shifts(x)[n]) <=> Odd(x))
        BY <1>2
  <2>3. QED  BY <2>1, <2>2, OddShifted
<1> HIDE DEF T
<1>3. \A n \in Nat : n \in T
      BY <1>1, <1>2, Counting
<1>4. QED  BY <1>3 DEF T

-----------------------------------------------------------------------------
(***************************************************************************)
(* The sixteen bits of a sum, bit by bit, after one, four and sixteen      *)
(* shifts; after sixteen of a sum with an odd number of ones.              *)
(***************************************************************************)
After1(x, y) ==
    /\ x \in Sums /\ y \in Sums
    /\ (0 \in y) <=> ~((0 \in x) <=> (1 \in x))
    /\ (1 \in y) <=> (2 \in x)
    /\ (2 \in y) <=> (3 \in x)
    /\ (3 \in y) <=> (4 \in x)
    /\ (4 \in y) <=> (5 \in x)
    /\ (5 \in y) <=> (6 \in x)
    /\ (6 \in y) <=> (7 \in x)
    /\ (7 \in y) <=> (8 \in x)
    /\ (8 \in y) <=> (9 \in x)
    /\ (9 \in y) <=> (10 \in x)
    /\ (10 \in y) <=> (11 \in x)
    /\ (11 \in y) <=> (12 \in x)
    /\ (12 \in y) <=> (13 \in x)
    /\ (13 \in y) <=> ~((0 \in x) <=> (14 \in x))
    /\ (14 \in y) <=> (15 \in x)
    /\ (15 \in y) <=> (0 \in x)

After4(x, y) ==
    /\ x \in Sums /\ y \in Sums
    /\ (0 \in y) <=> ((0 \in x) <=> ((1 \in x) <=> ((2 \in x) <=> ((3 \in x) <=> (4 \in x)))))
    /\ (1 \in y) <=> (5 \in x)
    /\ (2 \in y) <=> (6 \in x)
    /\ (3 \in y) <=> (7 \in x)
    /\ (4 \in y) <=> (8 \in x)
    /\ (5 \in y) <=> (9 \in x)
    /\ (6 \in y) <=> (10 \in x)
    /\ (7 \in y) <=> (11 \in x)
    /\ (8 \in y) <=> (12 \in x)
    /\ (9 \in y) <=> (13 \in x)
    /\ (10 \in y) <=> ~((0 \in x) <=> (14 \in x))
    /\ (11 \in y) <=> ((0 \in x) <=> ((1 \in x) <=> (15 \in x)))
    /\ (12 \in y) <=> ~((1 \in x) <=> (2 \in x))
    /\ (13 \in y) <=> ~((2 \in x) <=> (3 \in x))
    /\ (14 \in y) <=> ((0 \in x) <=> ((1 \in x) <=> (2 \in x)))
    /\ (15 \in y) <=> ~((0 \in x) <=> ((1 \in x) <=> ((2 \in x) <=> (3 \in x))))

After16(x, y) ==
    /\ x \in Sums /\ y \in Sums
    /\ (0 \in y) <=> (2 \notin x)
    /\ (1 \in y) <=> ~((2 \in x) <=> (3 \in x))
    /\ (2 \in y) <=> ~((3 \in x) <=> (4 \in x))
    /\ (3 \in y) <=> ~((4 \in x) <=> (5 \in x))
    /\ (4 \in y) <=> ~((5 \in x) <=> (6 \in x))
    /\ (5 \in y) <=> ~((6 \in x) <=> (7 \in x))
    /\ (6 \in y) <=> ~((7 \in x) <=> (8 \in x))
    /\ (7 \in y) <=> ~((8 \in x) <=> (9 \in x))
    /\ (8 \in y) <=> ~((9 \in x) <=> (10 \in x))
    /\ (9 \in y) <=> ~((10 \in x) <=> (11 \in x))
    /\ (10 \in y) <=> ~((11 \in x) <=> (12 \in x))
    /\ (11 \in y) <=> ~((12 \in x) <=> (13 \in x))
    /\ (12 \in y) <=> ((0 \in x) <=> ((13 \in x) <=> (14 \in x)))
    /\ (13 \in y) <=> ((1 \in x) <=> ((14 \in x) <=> (15 \in x)))
    /\ (14 \in y) <=> ((0 \in x) <=> (15 \in x))
    /\ (15 \in y) <=> (1 \notin x)

Even4(x, k) == ((k \in x) <=> (k + 1 \in x)) <=> ((k + 2 \in x) <=> (k + 3 \in x))

\* An even number of ones.
EvenBits(x) == (Even4(x, 0) <=> Even4(x, 4)) <=> (Even4(x, 8) <=> Even4(x, 12))

LEMMA OneShift ==
    ASSUME NEW x \in Sums
    PROVE  After1(x, Shift(x))
<1>1. Shift(x) \in Sums
      BY ShiftInSums
<1>2. x \in SUBSET Nat /\ 16 \notin x
      BY DEF Sums
<1>3. \A k \in Nat : (k \in Shift(x)) <=> ~((k + 1 \in x) <=> (0 \in x /\ k \in {0, 13, 15}))
      BY <1>2, ShiftFacts
<1>4. \A k \in 0 .. 14 : k \notin {0, 13} => ((k \in Shift(x)) <=> (k + 1 \in x))
      BY <1>3
<1>5. /\ (0 \in Shift(x)) <=> ~((0 \in x) <=> (1 \in x))
      /\ (13 \in Shift(x)) <=> ~((0 \in x) <=> (14 \in x))
      /\ (15 \in Shift(x)) <=> (0 \in x)
  <2>1. 0 + 1 = 1 /\ 13 + 1 = 14 /\ 15 + 1 = 16
        OBVIOUS
  <2>2. QED  BY <1>2, <1>3, <2>1
<1>6. QED  BY <1>1, <1>4, <1>5 DEF After1

LEMMA FourMore ==
    ASSUME NEW x \in Sums, NEW n \in Nat
    PROVE  /\ After4(Shifts(x)[n], Shifts(x)[n + 4])
           /\ EvenBits(Shifts(x)[n]) <=> EvenBits(Shifts(x)[n + 4])
<1> DEFINE f == Shifts(x)
<1>1. \A m \in Nat : f[m] \in Sums /\ f[m + 1] = Shift(f[m])
  <2>1. x \in SUBSET Nat
        BY DEF Sums
  <2>2. QED  BY <2>1, ShiftsFacts, ShiftsInSums
<1> HIDE DEF f
<1>2. \A m \in Nat : After1(f[m], f[m + 1])
      BY <1>1, OneShift
<1>3. /\ n + 1 \in Nat /\ n + 2 \in Nat /\ n + 3 \in Nat
      /\ (n + 1) + 1 = n + 2 /\ (n + 2) + 1 = n + 3 /\ (n + 3) + 1 = n + 4
      OBVIOUS
<1>4. /\ After1(f[n], f[n + 1]) /\ After1(f[n + 1], f[n + 2])
      /\ After1(f[n + 2], f[n + 3]) /\ After1(f[n + 3], f[n + 4])
      BY <1>2, <1>3
<1> DEFINE b == f[n + 1]  c == f[n + 2]  d == f[n + 3]
<1>5. After1(f[n], b) /\ After1(b, c) /\ After1(c, d) /\ After1(d, f[n + 4])
      BY <1>4
<1> HIDE DEF b, c, d
<1>6. After4(f[n], f[n + 4])
      BY <1>5 DEF After1, After4
<1>7. /\ EvenBits(f[n]) <=> EvenBits(b)
      /\ EvenBits(b) <=> EvenBits(c)
      /\ EvenBits(c) <=> EvenBits(d)
      /\ EvenBits(d) <=> EvenBits(f[n + 4])
      BY <1>5 DEF After1, EvenBits, Even4
<1>8. QED  BY <1>6, <1>7 DEF f

LEMMA SixteenShifts ==
    ASSUME NEW x \in Sums, ~EvenBits(x)
    PROVE  After16(x, Shifts(x)[16]) /\ ~EvenBits(Shifts(x)[16])
<1> DEFINE f == Shifts(x)
<1>1. f[0] = x
  <2>1. x \in SUBSET Nat
        BY DEF Sums
  <2>2. QED  BY <2>1, ShiftsFacts
<1>2. \A n \in Nat : After4(f[n], f[n + 4]) /\ (EvenBits(f[n]) <=> EvenBits(f[n + 4]))
      BY FourMore
<1> HIDE DEF f
<1>3. 0 + 4 = 4 /\ 4 + 4 = 8 /\ 8 + 4 = 12 /\ 12 + 4 = 16
      OBVIOUS
<1>4. /\ After4(f[0], f[4]) /\ After4(f[4], f[8]) /\ After4(f[8], f[12]) /\ After4(f[12], f[16])
      /\ EvenBits(f[0]) <=> EvenBits(f[16])
      BY <1>2, <1>3
<1> DEFINE b == f[4]  c == f[8]  d == f[12]
<1>5. After4(x, b) /\ After4(b, c) /\ After4(c, d) /\ After4(d, f[16])
      BY <1>1, <1>4
<1> HIDE DEF b, c, d
<1>6. After16(x, f[16])
      BY <1>5 DEF After4, After16, EvenBits, Even4
<1>7. QED  BY <1>1, <1>4, <1>6 DEF f

\* Equal bits, equal sums.
LEMMA SameSum ==
    ASSUME NEW x, NEW y, NEW z, After16(x, y), After16(x, z)
    PROVE  y = z
<1>1. ASSUME NEW k \in 0 .. 15 PROVE (k \in y) <=> (k \in z)
  <2>1. \/ k \in {0, 1, 2, 3, 4, 5} \/ k \in {6, 7, 8, 9, 10, 11} \/ k \in {12, 13, 14, 15}
        OBVIOUS
  <2>2. CASE k \in {0, 1, 2, 3, 4, 5}
        BY <2>2 DEF After16
  <2>3. CASE k \in {6, 7, 8, 9, 10, 11}
        BY <2>3 DEF After16
  <2>4. CASE k \in {12, 13, 14, 15}
        BY <2>4 DEF After16
  <2>5. QED  BY <2>1, <2>2, <2>3, <2>4
<1>2. y \in Sums /\ z \in Sums
      BY DEF After16
<1>3. QED  BY <1>1, <1>2 DEF Sums

-----------------------------------------------------------------------------
(***************************************************************************)
(* A single bit does not come back within 2047 shifts: after each sixteen  *)
(* of them the sum has several bits.                                       *)
(***************************************************************************)
LEMMA OneBitMoves ==
    ASSUME NEW s \in Nat
    PROVE  Shifts({s})[s] = {0}
<1>1. {s} \in SUBSET Nat /\ \A k \in {s} : k >= s
      OBVIOUS
<1>2. \A k \in Nat : (k \in Shifts({s})[s]) <=> (k + s \in {s})
      BY <1>1, ShiftsMove
<1>3. Shifts({s})[s] \in SUBSET Nat
      BY <1>1, ShiftsFacts
<1>4. \A k \in Nat : (k + s \in {s}) <=> k = 0
      OBVIOUS
<1>5. QED  BY <1>2, <1>3, <1>4

\* What becomes one bit as late as it does, is that bit.
LEMMA OnlyThatBit ==
    ASSUME NEW x \in Sums, NEW s \in 0 .. 15, Shifts(x)[s] = {0}
    PROVE  x = {s}
<1>1. x \in SUBSET Nat /\ {s} \in SUBSET Nat /\ s \in Nat
      BY DEF Sums
<1>2. Shifts(SymDiff(x, {s}))[s] = SymDiff(Shifts(x)[s], Shifts({s})[s])
      BY <1>1, ShiftsOfSum
<1>3. Shifts(SymDiff(x, {s}))[s] = {}
      BY <1>1, <1>2, OneBitMoves, SymDiffFacts
<1>4. SymDiff(x, {s}) \in Sums
  <2>1. {s} \in SUBSET (0 .. 15)
        OBVIOUS
  <2>2. x \in SUBSET (0 .. 15)
        BY DEF Sums
  <2>3. SymDiff(x, {s}) \in SUBSET (0 .. 15)
        BY <2>1, <2>2, SymDiffIn
  <2>4. QED  BY <2>3 DEF Sums
<1>5. SymDiff(x, {s}) = {}
      BY <1>1, <1>3, <1>4, ShiftsInSums
<1>6. QED  BY <1>5, SymDiffFacts

\* From a sum with an odd number of bits, up to n shifts do not lead to the
\* lowest bit alone.
Away(x, n) == ~EvenBits(x) => \A j \in 0 .. n : Shifts(x)[j] # {0}

Several(x) == \A s : x # {s}

LEMMA AwaySome ==
    ASSUME NEW x \in Sums, Several(x)
    PROVE  Away(x, 15)
BY OnlyThatBit DEF Away, Several

LEMMA AwayUse ==
    ASSUME NEW x, NEW n \in Nat, Away(x, n), ~EvenBits(x), NEW j \in Nat, j <= n
    PROVE  Shifts(x)[j] # {0}
<1>1. j \in 0 .. n
      OBVIOUS
<1>2. QED  BY <1>1 DEF Away

LEMMA AwayMore ==
    ASSUME NEW x, NEW y, NEW n \in Nat, After16(x, y), Several(x), Away(y, n)
    PROVE  Away(x, n + 16)
<1>1. SUFFICES ASSUME ~EvenBits(x), NEW j \in 0 .. n + 16 PROVE Shifts(x)[j] # {0}
      BY DEF Away
<1>2. x \in Sums /\ x \in SUBSET Nat
      BY DEF After16, Sums
<1>3. y = Shifts(x)[16] /\ ~EvenBits(y)
      BY <1>1, <1>2, SixteenShifts, SameSum
<1>4. CASE j < 16
  <2>1. j \in 0 .. 15
        BY <1>4
  <2>2. QED  BY <1>2, <2>1, OnlyThatBit DEF Several
<1>5. CASE j >= 16
  <2>1. j - 16 \in 0 .. n /\ j - 16 \in Nat /\ 16 + (j - 16) = j
        BY <1>5
  <2>2. Shifts(x)[16 + (j - 16)] = Shifts(Shifts(x)[16])[j - 16]
        BY <1>2, <2>1, ShiftsPlus
  <2>3. Shifts(y)[j - 16] # {0}
        BY <1>3, <2>1 DEF Away
  <2>4. QED  BY <1>3, <2>1, <2>2, <2>3
<1>6. QED  BY <1>4, <1>5

\* Ten sums, sixteen shifts from one to the next.
Leads(x, y) == After16(x, y) /\ Several(x)

Tour(a, b, c, d, e, f, g, h, i, j) ==
    /\ Leads(a, b) /\ Leads(b, c) /\ Leads(c, d) /\ Leads(d, e) /\ Leads(e, f)
    /\ Leads(f, g) /\ Leads(g, h) /\ Leads(h, i) /\ Leads(i, j)

LEMMA AwayTour ==
    ASSUME NEW a, NEW b, NEW c, NEW d, NEW e, NEW f, NEW g, NEW h, NEW i, NEW j, NEW n \in Nat,
           Tour(a, b, c, d, e, f, g, h, i, j), Away(j, n)
    PROVE  Away(a, n + 144)
<1>1. Away(i, n + 16) /\ Away(h, n + 32) /\ Away(g, n + 48)
      BY AwayMore DEF Tour, Leads
<1>2. Away(f, n + 64) /\ Away(e, n + 80) /\ Away(d, n + 96)
      BY <1>1, AwayMore DEF Tour, Leads
<1>3. Away(c, n + 112) /\ Away(b, n + 128) /\ Away(a, n + 144)
      BY <1>2, AwayMore DEF Tour, Leads
<1>4. QED  BY <1>3

LEMMA AwayFirst == Away({0, 12, 15}, 2031)
<1> USE DEF Tour, Leads, After16, Several, Sums
<1>1. Tour({0, 12, 15}, {0, 10, 11, 12, 13, 14, 15}, {0, 8, 12, 14, 15},
           {0, 6, 7, 10, 11, 14, 15}, {0, 4, 6, 8, 10, 14, 15},
           {0, 2, 3, 4, 5, 6, 7, 8, 9, 14, 15}, {8, 14, 15}, {0, 6, 7, 12, 15},
           {0, 4, 6, 10, 11, 12, 13, 14, 15}, {0, 2, 3, 4, 5, 8, 12, 14, 15})
      OBVIOUS
<1>2. Tour({0, 2, 3, 4, 5, 8, 12, 14, 15}, {4, 6, 7, 10, 11, 14, 15},
           {0, 2, 3, 4, 6, 8, 10, 12, 15},
           {3, 4, 5, 6, 7, 8, 9, 10, 11, 12, 13, 14, 15}, {0, 1, 15}, {0, 12, 14},
           {0, 10, 11, 13, 15}, {0, 8, 10, 11, 13, 14, 15},
           {0, 6, 7, 8, 10, 11, 12, 14, 15}, {0, 4, 7, 8, 11, 14, 15})
      OBVIOUS
<1>3. Tour({0, 4, 7, 8, 11, 14, 15}, {0, 2, 3, 5, 7, 9, 10, 14, 15},
           {2, 3, 4, 5, 6, 7, 9, 14, 15}, {6, 7, 8, 12, 15}, {0, 4, 7, 10, 11, 13, 15},
           {0, 2, 3, 5, 6, 8, 10, 11, 13, 14, 15},
           {2, 3, 5, 6, 7, 8, 10, 11, 12, 14, 15}, {2, 3, 7, 8, 11, 12, 15},
           {2, 5, 7, 9, 11, 13, 15}, {1, 3, 4, 5, 6, 7, 8, 9, 10, 11, 12, 13, 15})
      OBVIOUS
<1>4. Tour({1, 3, 4, 5, 6, 7, 8, 9, 10, 11, 12, 13, 15}, {0, 1, 12},
           {0, 10, 11, 12, 13}, {0, 8, 15}, {0, 6, 7, 12, 13, 14, 15},
           {0, 4, 6, 10, 12, 14, 15}, {0, 2, 3, 4, 5, 8, 9, 10, 11, 14, 15},
           {4, 6, 10, 14, 15}, {0, 2, 3, 4, 5, 8, 9, 12, 15},
           {4, 6, 8, 10, 11, 12, 13, 14, 15})
      OBVIOUS
<1>5. Tour({4, 6, 8, 10, 11, 12, 13, 14, 15}, {0, 2, 3, 4, 5, 6, 7, 8, 15},
           {7, 12, 13, 14, 15}, {0, 5, 6, 10, 15}, {0, 3, 5, 8, 9, 12, 13, 14, 15},
           {0, 1, 2, 3, 4, 6, 8, 10, 12, 14, 15},
           {3, 4, 5, 6, 7, 8, 9, 10, 11, 13, 14}, {0, 1, 10, 11, 13, 14, 15},
           {0, 8, 10, 11, 12, 13, 14}, {0, 6, 7, 8, 12, 13, 15})
      OBVIOUS
<1>6. Tour({0, 6, 7, 8, 12, 13, 15}, {0, 4, 7, 10, 13, 14, 15},
           {0, 2, 3, 5, 6, 8, 9, 11, 12, 14, 15}, {2, 3, 5, 6, 8, 9, 11, 14, 15},
           {2, 3, 5, 6, 8, 9, 10, 12, 15}, {2, 3, 5, 6, 9, 10, 11, 13, 15},
           {2, 3, 5, 7, 10, 11, 12, 13, 15}, {2, 3, 4, 5, 6, 8, 12, 13, 15},
           {5, 6, 7, 10, 12, 13, 15}, {0, 3, 6, 8, 9, 10, 12, 13, 15})
      OBVIOUS
<1>7. Tour({0, 3, 6, 8, 9, 10, 12, 13, 15}, {0, 1, 2, 4, 5, 6, 9, 10, 13, 14, 15},
           {1, 2, 5, 7, 9, 11, 12, 13, 14}, {1, 3, 4, 5, 6, 7, 8, 9, 14},
           {0, 1, 8, 12, 14}, {0, 6, 7, 10, 11}, {0, 4, 6, 8, 10, 12, 15},
           {0, 2, 3, 4, 5, 6, 7, 8, 9, 10, 11, 12, 13, 14, 15}, {12, 14, 15},
           {0, 10, 11, 12, 15})
      OBVIOUS
<1>8. Tour({0, 10, 11, 12, 15}, {0, 8, 11, 12, 13, 14, 15}, {0, 6, 7, 9, 12, 14, 15},
           {0, 4, 6, 7, 8, 10, 11, 14, 15}, {0, 2, 3, 4, 7, 8, 10, 14, 15},
           {3, 5, 7, 8, 9, 14, 15}, {0, 1, 2, 3, 4, 5, 8, 12, 15},
           {4, 6, 7, 10, 11, 12, 14}, {0, 2, 3, 4, 6, 8, 11, 12, 13, 14, 15},
           {3, 4, 5, 6, 7, 9, 12, 14, 15})
      OBVIOUS
<1>9. Tour({3, 4, 5, 6, 7, 9, 12, 14, 15}, {0, 1, 6, 7, 8, 10, 11, 12, 15},
           {0, 4, 7, 8, 11, 12, 14}, {0, 2, 3, 5, 7, 9, 11, 13, 15},
           {2, 3, 4, 5, 6, 7, 8, 9, 10, 11, 13, 14, 15}, {10, 11, 15},
           {0, 8, 10, 13, 15}, {0, 6, 7, 8, 9, 11, 13, 14, 15},
           {0, 4, 8, 9, 10, 11, 12, 14, 15}, {0, 2, 3, 6, 11, 14, 15})
      OBVIOUS
<1>10. Tour({0, 2, 3, 6, 11, 14, 15}, {2, 4, 5, 9, 10, 14, 15}, {1, 2, 4, 7, 9, 12, 15},
           {1, 2, 3, 5, 6, 7, 8, 10, 11}, {2, 3, 7, 8, 10, 13, 14},
           {2, 5, 7, 8, 9, 11, 13, 14, 15}, {1, 3, 4, 5, 8, 9, 10, 11, 15},
           {0, 1, 4, 6, 10}, {0, 2, 3, 4, 5, 8, 9, 12, 13}, {4, 6, 8, 10, 15})
      OBVIOUS
<1>11. Tour({4, 6, 8, 10, 15}, {0, 2, 3, 4, 5, 6, 7, 8, 9, 13, 15}, {8, 11, 13, 14, 15},
           {0, 6, 7, 9, 10, 11, 15}, {0, 4, 6, 7, 10, 12, 13, 14, 15},
           {0, 2, 3, 4, 6, 8, 9, 10, 12, 14, 15}, {3, 4, 5, 6, 9, 10, 11, 14, 15},
           {0, 1, 5, 7, 10, 12, 15}, {0, 3, 4, 5, 6, 8, 9, 10, 11, 12, 14},
           {0, 1, 5, 6, 11, 13, 15})
      OBVIOUS
<1>12. Tour({0, 1, 5, 6, 11, 13, 15}, {0, 3, 5, 9, 10, 11, 14},
           {0, 1, 2, 3, 4, 7, 10, 13, 15}, {3, 5, 6, 8, 9, 11, 14},
           {0, 1, 2, 3, 5, 6, 8, 9, 10, 12, 13, 14, 15},
           {2, 3, 5, 6, 9, 10, 12, 13, 14}, {2, 3, 5, 7, 9, 10, 13, 14, 15},
           {2, 3, 4, 5, 6, 7, 9, 11, 15}, {6, 7, 8, 9, 10, 13, 15},
           {0, 4, 9, 11, 12, 13, 15})
      OBVIOUS
<1>13. Tour({0, 4, 9, 11, 12, 13, 15}, {0, 2, 3, 7, 8, 9, 13, 14, 15},
           {2, 5, 8, 11, 12, 14, 15}, {1, 3, 4, 6, 7, 9, 11, 12, 15},
           {0, 1, 3, 4, 6, 7, 8, 9, 11}, {0, 1, 3, 4, 8, 9, 10, 12, 13},
           {0, 1, 3, 6, 9, 10, 13}, {0, 1, 2, 4, 5, 7, 9, 11, 13},
           {1, 2, 4, 5, 6, 7, 8, 9, 10, 11, 13}, {1, 2, 10, 11, 12, 13, 14})
      OBVIOUS
<1>14. Tour({1, 2, 10, 11, 12, 13, 14}, {1, 8, 14}, {0, 6, 7, 12, 14},
           {0, 4, 6, 10, 11, 13, 15}, {0, 2, 3, 4, 5, 8, 10, 11, 13, 14, 15},
           {4, 6, 7, 8, 10, 11, 12, 14, 15}, {0, 2, 3, 4, 7, 8, 11, 12, 15},
           {3, 5, 7, 9, 11, 12, 13, 14, 15}, {0, 1, 2, 3, 4, 5, 6, 7, 8, 9, 15},
           {8, 12, 14})
      OBVIOUS
<1> HIDE DEF Tour, Leads, After16, Several, Sums
<1>15. Away({8, 12, 14}, 15)
  <2>1. {8, 12, 14} \in Sums /\ Several({8, 12, 14})
        BY DEF Sums, Several
  <2>2. QED  BY <2>1, AwaySome
<1>16. Away({1, 2, 10, 11, 12, 13, 14}, 159)
      BY <1>14, <1>15, AwayTour
<1>17. Away({0, 4, 9, 11, 12, 13, 15}, 303)
      BY <1>13, <1>16, AwayTour
<1>18. Away({0, 1, 5, 6, 11, 13, 15}, 447)
      BY <1>12, <1>17, AwayTour
<1>19. Away({4, 6, 8, 10, 15}, 591)
      BY <1>11, <1>18, AwayTour
<1>20. Away({0, 2, 3, 6, 11, 14, 15}, 735)
      BY <1>10, <1>19, AwayTour
<1>21. Away({3, 4, 5, 6, 7, 9, 12, 14, 15}, 879)
      BY <1>9, <1>20, AwayTour
<1>22. Away({0, 10, 11, 12, 15}, 1023)
      BY <1>8, <1>21, AwayTour
<1>23. Away({0, 3, 6, 8, 9, 10, 12, 13, 15}, 1167)
      BY <1>7, <1>22, AwayTour
<1>24. Away({0, 6, 7, 8, 12, 13, 15}, 1311)
      BY <1>6, <1>23, AwayTour
<1>25. Away({4, 6, 8, 10, 11, 12, 13, 14, 15}, 1455)
      BY <1>5, <1>24, AwayTour
<1>26. Away({1, 3, 4, 5, 6, 7, 8, 9, 10, 11, 12, 13, 15}, 1599)
      BY <1>4, <1>25, AwayTour
<1>27. Away({0, 4, 7, 8, 11, 14, 15}, 1743)
      BY <1>3, <1>26, AwayTour
<1>28. Away({0, 2, 3, 4, 5, 8, 12, 14, 15}, 1887)
      BY <1>2, <1>27, AwayTour
<1>29. Away({0, 12, 15}, 2031)
      BY <1>1, <1>28, AwayTour
<1>30. QED  BY <1>29

LEMMA NoReturn ==
    ASSUME NEW n \in Nat, n # 0, n <= 2047
    PROVE  Shifts({0})[n] # {0}
<1> DEFINE x == {0, 12, 15}
<1>1. {0} \in Sums /\ {0} \in SUBSET Nat /\ ~EvenBits({0})
      BY DEF Sums, EvenBits, Even4
<1>2. After16({0}, x)
      BY DEF After16, Sums
<1>3. Away(x, 2031)
      BY AwayFirst
<1> HIDE DEF x
<1>4. x = Shifts({0})[16] /\ ~EvenBits(x)
      BY <1>1, <1>2, SixteenShifts, SameSum
<1>5. CASE n < 16
  <2>1. n \in 0 .. 15 /\ {0} # {n}
        BY <1>5
  <2>2. QED  BY <1>1, <2>1, OnlyThatBit
<1>6. CASE n >= 16
  <2> DEFINE m == n - 16
  <2>1. m \in Nat /\ m <= 2031 /\ 16 + m = n
        BY <1>6
  <2> HIDE DEF m
  <2>2. Shifts({0})[16 + m] = Shifts(Shifts({0})[16])[m]
        BY <1>1, <2>1, ShiftsPlus
  <2>3. Shifts(x)[m] # {0}
        BY <1>3, <1>4, <2>1, AwayUse
  <2>4. QED  BY <1>4, <2>1, <2>2, <2>3
<1>7. QED  BY <1>5, <1>6

-----------------------------------------------------------------------------
(***************************************************************************)
(* The tables hold what eight shifts make of a byte, and so the loop over  *)
(* them shifts the whole buffer.                                           *)
(***************************************************************************)
EvenByte(i) == Even4(i, 0) <=> Even4(i, 4)

HiBits(i, hi) ==
    /\ (0 \in hi) <=> ~EvenByte(i)
    /\ \A k \in 1 .. 5 : k \notin hi
    /\ (6 \in hi) <=> (0 \in i)
    /\ (7 \in hi) <=> ~((0 \in i) <=> (1 \in i))

LoBits(i, lo) ==
    /\ \A k \in 0 .. 5 : (k \in lo) <=> ~((k + 1 \in i) <=> (k + 2 \in i))
    /\ (6 \in lo) <=> (EvenByte(i) <=> (7 \in i))
    /\ (7 \in lo) <=> ~EvenByte(i)

LEMMA HighTable ==
    ASSUME NEW i
    PROVE  HiBits(i, Entry(table_crc_hi, i))
BY SMTT(20) DEF HiBits, Entry, table_crc_hi, Nibble, BitsOf, EvenByte, Even4

LEMMA LowTable ==
    ASSUME NEW i
    PROVE  LoBits(i, Entry(table_crc_lo, i))
BY DEF LoBits, Entry, table_crc_lo, Nibble, BitsOf, EvenByte, Even4

LEMMA EntryIsByte ==
    ASSUME NEW table, NEW i
    PROVE  Entry(table, i) \in Byte
BY DEF Entry, BitsOf, Byte

LEMMA SymDiffOfBytes ==
    ASSUME NEW x \in Byte, NEW y \in Byte
    PROVE  SymDiff(x, y) \in Byte
BY DEF SymDiff, Byte

\* The sum whose two bytes the code keeps.
SumOf(crc) == {k \in 0 .. 15 : (k < 8 /\ k \in crc.hi) \/ (k >= 8 /\ k - 8 \in crc.lo)}

Crcs == [hi : Byte, lo : Byte]

LEMMA SumOfBits ==
    ASSUME NEW crc
    PROVE  /\ SumOf(crc) \in Sums
           /\ \A k \in 0 .. 7 : /\ (k \in SumOf(crc)) <=> (k \in crc.hi)
                                /\ (k + 8 \in SumOf(crc)) <=> (k \in crc.lo)
BY DEF SumOf, Sums

LEMMA TablesShift ==
    ASSUME NEW i \in Byte
    PROVE  \A k \in 0 .. 7 : /\ (k \in Shifts(i)[8]) <=> (k \in Entry(table_crc_hi, i))
                             /\ (k + 8 \in Shifts(i)[8]) <=> (k \in Entry(table_crc_lo, i))
<1> DEFINE f == Shifts(i)  hi == Entry(table_crc_hi, i)  lo == Entry(table_crc_lo, i)
<1>1. i \in Sums /\ i \in SUBSET Nat /\ \A k \in 8 .. 15 : k \notin i
      BY DEF Byte, Sums
<1>2. f[0] = i
      BY <1>1, ShiftsFacts
<1>3. 0 + 4 = 4 /\ 4 + 4 = 8
      OBVIOUS
<1>4. After4(f[0], f[4]) /\ After4(f[4], f[8])
  <2>1. \A n \in Nat : After4(f[n], f[n + 4])
        BY <1>1, FourMore
  <2> HIDE DEF f
  <2>2. QED  BY <1>3, <2>1
<1>5. HiBits(i, hi) /\ LoBits(i, lo)
      BY HighTable, LowTable
<1> DEFINE x == f[4]  y == f[8]
<1>6. After4(i, x) /\ After4(x, y)
      BY <1>2, <1>4
<1> HIDE DEF f, hi, lo, x, y
<1>7. /\ 8 \notin i /\ 9 \notin i /\ 10 \notin i /\ 11 \notin i
      /\ 12 \notin i /\ 13 \notin i /\ 14 \notin i /\ 15 \notin i
      BY <1>1
<1>8. \A k \in 0 .. 7 : (k \in y) <=> (k \in hi)
      BY <1>5, <1>6, <1>7 DEF HiBits, After4, EvenByte, Even4
<1>9. \A k \in 0 .. 7 : (k + 8 \in y) <=> (k \in lo)
      BY <1>5, <1>6, <1>7 DEF LoBits, After4, EvenByte, Even4
<1>10. QED  BY <1>8, <1>9 DEF y, f, hi, lo

\* A byte of the loop is eight shifts.
LEMMA ByteShifts ==
    ASSUME NEW crc \in Crcs, NEW byte \in Byte
    PROVE  /\ crc_byte(crc, byte) \in Crcs
           /\ Shifts(SymDiff(SumOf(crc), byte))[8] = SumOf(crc_byte(crc, byte))
<1> DEFINE i == SymDiff(crc.hi, byte)
           up == {k \in 8 .. 15 : k - 8 \in crc.lo}
           next == crc_byte(crc, byte)
           f == Shifts(i)[8]  g == Shifts(up)[8]
<1>1. crc.hi \in Byte /\ crc.lo \in Byte
      BY DEF Crcs
<1>2. i \in Byte
      BY <1>1, SymDiffOfBytes
<1>3. /\ next.hi = SymDiff(crc.lo, Entry(table_crc_hi, i)) /\ next.lo = Entry(table_crc_lo, i)
      /\ next = [hi |-> SymDiff(crc.lo, Entry(table_crc_hi, i)), lo |-> Entry(table_crc_lo, i)]
      BY DEF crc_byte
<1>4. next \in Crcs
  <2>1. SymDiff(crc.lo, Entry(table_crc_hi, i)) \in Byte
        BY <1>1, EntryIsByte, SymDiffOfBytes
  <2>2. QED  BY <1>3, <2>1, EntryIsByte DEF Crcs
<1>5. SymDiff(SumOf(crc), byte) = SymDiff(i, up)
  <2>1. \A k : (k \in SymDiff(SumOf(crc), byte)) <=> ~((k \in SumOf(crc)) <=> (k \in byte))
        BY SymDiffMembers
  <2>2. \A k : (k \in SymDiff(i, up)) <=> ~(~((k \in crc.hi) <=> (k \in byte)) <=> (k \in up))
        BY SymDiffMembers
  <2>3. ASSUME NEW k PROVE (k \in SumOf(crc)) <=> ~((k \in crc.hi) <=> (k \in up))
    <3>1. CASE k \in 0 .. 7
          BY <3>1 DEF SumOf
    <3>2. CASE k \in 8 .. 15
          BY <1>1, <3>2 DEF SumOf, Byte
    <3>3. CASE k \notin 0 .. 15
          BY <1>1, <3>3 DEF SumOf, Byte
    <3>4. QED  BY <3>1, <3>2, <3>3
  <2> HIDE DEF i, up
  <2>4. QED  BY <2>1, <2>2, <2>3
<1>6. i \in SUBSET Nat /\ up \in SUBSET Nat /\ i \in Sums /\ up \in Sums
      BY <1>2 DEF Byte, Sums
<1>7. Shifts(SymDiff(i, up))[8] = SymDiff(f, g)
      BY <1>6, ShiftsOfSum
<1>8. \A k \in Nat : (k \in g) <=> (k + 8 \in up)
  <2>1. \A k \in up : k >= 8
        OBVIOUS
  <2> HIDE DEF up
  <2>2. QED  BY <1>6, <2>1, ShiftsMove
<1>9. \A k \in 0 .. 7 : /\ (k \in f) <=> (k \in Entry(table_crc_hi, i))
                        /\ (k + 8 \in f) <=> (k \in Entry(table_crc_lo, i))
      BY <1>2, TablesShift
<1>10. \A k \in 0 .. 7 : /\ (k \in g) <=> (k \in crc.lo)
                         /\ k + 8 \notin g
  <2>1. ASSUME NEW k \in 0 .. 7 PROVE (k + 8 \in up) <=> (k \in crc.lo)
        OBVIOUS
  <2>2. ASSUME NEW k \in 0 .. 7 PROVE (k + 8) + 8 \notin up
        OBVIOUS
  <2> HIDE DEF up, g
  <2>3. QED  BY <1>8, <2>1, <2>2
<1>11. f \in Sums /\ g \in Sums
      BY <1>6, ShiftsInSums
<1> HIDE DEF f, g, i, up, next
<1>12. ASSUME NEW k \in 0 .. 15 PROVE (k \in SymDiff(f, g)) <=> (k \in SumOf(next))
  <2>1. (k \in SymDiff(f, g)) <=> ~((k \in f) <=> (k \in g))
        BY SymDiffMembers
  <2>2. CASE k \in 0 .. 7
    <3>1. (k \in SumOf(next)) <=> ~((k \in crc.lo) <=> (k \in Entry(table_crc_hi, i)))
          BY <1>3, <2>2, SumOfBits, SymDiffMembers
    <3>2. QED  BY <1>9, <1>10, <2>1, <2>2, <3>1
  <2>3. CASE k \in 8 .. 15
    <3> DEFINE j == k - 8
    <3>1. j \in 0 .. 7 /\ k = j + 8
          BY <2>3
    <3> HIDE DEF j
    <3>2. (k \in SumOf(next)) <=> (j \in Entry(table_crc_lo, i))
          BY <1>3, <3>1, SumOfBits
    <3>3. QED  BY <1>9, <1>10, <2>1, <3>1, <3>2
  <2>4. QED  BY <2>2, <2>3
<1>13. SymDiff(f, g) \in Sums /\ SumOf(next) \in Sums
      BY <1>11, SumOfBits, SymDiffIn DEF Sums
<1>14. SymDiff(f, g) = SumOf(next)
      BY <1>12, <1>13 DEF Sums
<1>15. QED  BY <1>4, <1>5, <1>7, <1>14 DEF next

\* The same, for the first n steps.
Follows(f, n, S, start, rule) ==
    /\ f \in [0 .. n -> S] /\ f[0] = start
    /\ \A k \in 1 .. n : f[k] = rule[k - 1][f[k - 1]]

LEMMA StepsTo ==
    ASSUME NEW S, NEW start \in S, NEW rule \in Rules(S), NEW n \in Nat
    PROVE  \E f : Follows(f, n, S, start, rule)
<1>1. PICK run : Runs(run, S, start, rule)
      BY Steps, Zenon
<1>2. /\ run \in [Nat -> S] /\ run[0] = start
      /\ \A k \in Nat : run[k + 1] = rule[k][run[k]]
      BY <1>1 DEF Runs
<1> DEFINE f == [k \in 0 .. n |-> run[k]]
<1>3. f \in [0 .. n -> S] /\ f[0] = start
      BY <1>2
<1>4. ASSUME NEW k \in 1 .. n PROVE f[k] = rule[k - 1][f[k - 1]]
  <2>1. k - 1 \in Nat /\ (k - 1) + 1 = k /\ f[k] = run[k] /\ f[k - 1] = run[k - 1]
        OBVIOUS
  <2>2. QED  BY <1>2, <2>1
<1> HIDE DEF f
<1>5. Follows(f, n, S, start, rule)
      BY <1>3, <1>4 DEF Follows
<1>6. QED  BY <1>5, Zenon

LEMMA CrcAfterFacts ==
    ASSUME NEW first \in Byte, NEW buffer \in Seq(Byte)
    PROVE  LET c == crc_after(first, buffer)
           IN  /\ c[0] = [hi |-> first, lo |-> first]
               /\ \A n \in 1 .. Len(buffer) : c[n] = crc_byte(c[n - 1], buffer[n])
               /\ \A n \in 0 .. Len(buffer) : c[n] \in Crcs
<1> DEFINE c == crc_after(first, buffer)  start == [hi |-> first, lo |-> first]
           L == Len(buffer)
           Rule(n, crc) == IF n < L THEN crc_byte(crc, buffer[n + 1]) ELSE crc
           rule == [n \in Nat |-> [crc \in Crcs |-> Rule(n, crc)]]
<1>1. start \in Crcs
      BY DEF Crcs
<1>2. ASSUME NEW n \in Nat, NEW crc \in Crcs PROVE Rule(n, crc) \in Crcs
  <2>1. CASE n < L
    <3>1. buffer[n + 1] \in Byte
          BY <2>1
    <3>2. QED  BY <2>1, <3>1, ByteShifts
  <2>2. CASE ~(n < L)
        BY <2>2
  <2>3. QED  BY <2>1, <2>2
<1>3. /\ L \in Nat
      /\ \A n \in 1 .. L : n \in Nat /\ n # 0 /\ n - 1 \in Nat /\ n - 1 < L /\ (n - 1) + 1 = n
      OBVIOUS
<1>4. rule \in Rules(Crcs)
  <2> HIDE DEF Rule
  <2>1. QED  BY <1>2 DEF Rules
<1>5. \A n \in Nat, crc \in Crcs : rule[n][crc] = Rule(n, crc)
  <2> HIDE DEF Rule
  <2>1. QED  OBVIOUS
<1> HIDE DEF rule
<1>6. PICK g : Follows(g, L, Crcs, start, rule)
  <2>1. L \in Nat
        OBVIOUS
  <2> HIDE DEF start, L
  <2>2. QED  BY <1>1, <1>4, <2>1, StepsTo
<1> USE <1>6 DEF Follows
<1>7. g = [n \in 0 .. L |-> g[n]]
      OBVIOUS
<1>8. \A n \in 0 .. L : g[n] \in Crcs
      OBVIOUS
<1>9. ASSUME NEW n \in 1 .. L PROVE g[n] = crc_byte(g[n - 1], buffer[n])
  <2>1. n - 1 \in 0 .. L
        BY <1>3
  <2>2. g[n] = Rule(n - 1, g[n - 1])
        BY <1>3, <1>5, <1>6, <1>8, <2>1
  <2>3. QED  BY <1>3, <2>2
<1>10. ASSUME NEW n \in 0 .. L
       PROVE  g[n] = IF n = 0 THEN start ELSE crc_byte(g[n - 1], buffer[n])
  <2>1. n = 0 \/ n \in 1 .. L
        OBVIOUS
  <2>2. QED  BY <1>6, <1>9, <2>1
<1>12. g = [n \in 0 .. L |-> IF n = 0 THEN start ELSE crc_byte(g[n - 1], buffer[n])]
      BY <1>7, <1>10, Zenon
<1>13. c = [n \in 0 .. L |-> IF n = 0 THEN start ELSE crc_byte(c[n - 1], buffer[n])]
      BY <1>12, Zenon DEF crc_after
<1> HIDE DEF c
<1>14. c[0] = start /\ \A n \in 1 .. L : c[n] = crc_byte(c[n - 1], buffer[n])
  <2>1. 0 \in 0 .. L /\ \A n \in 1 .. L : n \in 0 .. L /\ n # 0
        BY <1>3
  <2> HIDE DEF start, L
  <2>2. QED  BY <1>13, <2>1
<1>15. \A n \in 0 .. L : c[n] \in Crcs
  <2> DEFINE T == {n \in Nat : n <= L => c[n] \in Crcs}
  <2>1. 0 \in T
        BY <1>1, <1>14
  <2>2. ASSUME NEW n \in Nat, n \in T PROVE n + 1 \in T
    <3>1. SUFFICES ASSUME n + 1 <= L PROVE c[n + 1] \in Crcs
          OBVIOUS
    <3>2. n <= L /\ n + 1 \in 1 .. L /\ (n + 1) - 1 = n
          BY <1>3, <3>1
    <3>3. c[n] \in Crcs /\ buffer[n + 1] \in Byte
          BY <2>2, <3>2
    <3>4. c[n + 1] = crc_byte(c[n], buffer[n + 1])
          BY <1>14, <3>2
    <3>5. QED  BY <3>3, <3>4, ByteShifts
  <2> HIDE DEF T
  <2>3. \A n \in Nat : n \in T
        BY <2>1, <2>2, Counting
  <2>4. \A n \in 0 .. L : n \in Nat /\ n <= L
        BY <1>3
  <2>5. QED  BY <2>3, <2>4 DEF T
<1>16. QED  BY <1>14, <1>15 DEF c

LEMMA SumOfFirst == SumOf([hi |-> 0 .. 7, lo |-> 0 .. 7]) = 0 .. 15
<1>1. ASSUME NEW k \in 0 .. 15 PROVE k \in SumOf([hi |-> 0 .. 7, lo |-> 0 .. 7])
      BY DEF SumOf
<1>2. QED  BY <1>1 DEF SumOf

\* The sums of the loop are those of the definition.
LEMMA ReferenceIsSum ==
    ASSUME msg \in Seq(Byte)
    PROVE  Reference = SumOf(crc16(msg))
<1> DEFINE L == Len(msg)  c == crc_after(0 .. 7, msg)
           Next8(x, n) == FourShifts(FourShifts(SymDiff(x, msg[n])))
           g == [n \in 0 .. L |-> SumOf(c[n])]
<1>1. 0 .. 7 \in Byte /\ L \in Nat /\ 0 \in 0 .. L /\ L \in 0 .. L
      BY DEF Byte
<1>2. /\ c[0] = [hi |-> 0 .. 7, lo |-> 0 .. 7]
      /\ \A n \in 1 .. L : c[n] = crc_byte(c[n - 1], msg[n])
      /\ \A n \in 0 .. L : c[n] \in Crcs
      BY <1>1, CrcAfterFacts
<1> HIDE DEF c
<1>3. ASSUME NEW n \in 1 .. L PROVE SumOf(c[n]) = Next8(SumOf(c[n - 1]), n)
  <2>1. n - 1 \in 0 .. L /\ msg[n] \in Byte
        OBVIOUS
  <2>2. c[n - 1] \in Crcs /\ c[n] = crc_byte(c[n - 1], msg[n])
        BY <1>2, <2>1
  <2> DEFINE x == SymDiff(SumOf(c[n - 1]), msg[n])
  <2>3. x \in SUBSET Nat
    <3>1. SumOf(c[n - 1]) \in Sums /\ msg[n] \in Byte
          BY <2>1, SumOfBits
    <3>2. SumOf(c[n - 1]) \in SUBSET Nat /\ msg[n] \in SUBSET Nat
          BY <3>1, SMTT(20) DEF Sums, Byte
    <3>3. QED  BY <3>2, SymDiffIn
  <2>4. Shifts(x)[8] = SumOf(c[n])
        BY <2>1, <2>2, ByteShifts
  <2> HIDE DEF x
  <2>5. FourShifts(FourShifts(x)) = SumOf(c[n])
        BY <2>3, <2>4, EightIsShifts
  <2>6. QED  BY <2>5 DEF x
<1>4. ASSUME NEW n \in 0 .. L
      PROVE  g[n] = IF n = 0 THEN 0 .. 15 ELSE Next8(g[n - 1], n)
  <2>1. CASE n = 0
        BY <1>2, <2>1, SumOfFirst
  <2>2. CASE n # 0
    <3>1. n \in 1 .. L /\ n - 1 \in 0 .. L
          BY <2>2
    <3>2. g[n] = SumOf(c[n]) /\ g[n - 1] = SumOf(c[n - 1])
          BY <3>1
    <3> HIDE DEF g, Next8
    <3>3. QED  BY <1>3, <2>2, <3>1, <3>2
  <2>3. QED  BY <2>1, <2>2
<1>5. g = [n \in 0 .. L |-> g[n]]
      OBVIOUS
<1> HIDE DEF g
<1>6. g = [n \in 0 .. L |-> IF n = 0 THEN 0 .. 15 ELSE Next8(g[n - 1], n)]
      BY <1>4, <1>5, Zenon
<1> DEFINE f == CHOOSE sum : sum = [n \in 0 .. L |->
                                      IF n = 0 THEN 0 .. 15 ELSE Next8(sum[n - 1], n)]
<1>7. f = [n \in 0 .. L |-> IF n = 0 THEN 0 .. 15 ELSE Next8(f[n - 1], n)]
      BY <1>6, Zenon
<1>8. Reference = f[L]
      BY DEF Reference
<1> HIDE DEF f, Next8
<1>9. f[0] = 0 .. 15 /\ \A n \in 1 .. L : f[n] = Next8(f[n - 1], n)
  <2>1. \A n \in 1 .. L : n \in 0 .. L /\ n # 0
        OBVIOUS
  <2> HIDE DEF L
  <2>2. QED  BY <1>1, <1>7, <2>1
<1> DEFINE T == {n \in Nat : n <= L => f[n] = SumOf(c[n])}
<1>10. 0 \in T
      BY <1>2, <1>9, SumOfFirst
<1>11. ASSUME NEW n \in Nat, n \in T PROVE n + 1 \in T
  <2>1. SUFFICES ASSUME n + 1 <= L PROVE f[n + 1] = SumOf(c[n + 1])
        OBVIOUS
  <2>2. n <= L /\ n + 1 \in 1 .. L /\ (n + 1) - 1 = n
        BY <1>1, <2>1
  <2>3. f[n] = SumOf(c[n])
        BY <1>11, <2>2
  <2>4. f[n + 1] = Next8(f[n], n + 1) /\ SumOf(c[n + 1]) = Next8(SumOf(c[n]), n + 1)
        BY <1>3, <1>9, <2>2
  <2>5. QED  BY <2>3, <2>4
<1> HIDE DEF T
<1>12. \A n \in Nat : n \in T
      BY <1>10, <1>11, Counting
<1>13. f[L] = SumOf(c[L])
      BY <1>1, <1>12 DEF T
<1>14. QED  BY <1>8, <1>13 DEF c, crc16

LEMMA CrcIsPair ==
    ASSUME NEW buffer \in Seq(Byte)
    PROVE  /\ crc16(buffer) \in Crcs
           /\ crc16(buffer) = [hi |-> crc16(buffer).hi, lo |-> crc16(buffer).lo]
           /\ crc16(buffer).hi \in Byte /\ crc16(buffer).lo \in Byte
<1>1. 0 .. 7 \in Byte /\ Len(buffer) \in 0 .. Len(buffer)
      BY DEF Byte
<1>2. crc_after(0 .. 7, buffer)[Len(buffer)] \in Crcs
      BY <1>1, CrcAfterFacts
<1>3. crc16(buffer) \in Crcs
      BY <1>2 DEF crc16
<1>4. QED  BY <1>3 DEF Crcs

\* The messages are sequences of bytes.
CInv == msg = <<>> \/ msg \in Messages

LEMMA CInvMessage == CInv => msg \in Seq(Byte)
<1>1. <<>> \in Seq(Byte)
      OBVIOUS
<1>2. \A m \in Messages : m \in Seq(Byte)
      BY CrcAssumption
<1>3. QED  BY <1>1, <1>2 DEF CInv

LEMMA CInvHolds == SpecCrc => []CInv
<1>1. InitCrc => CInv
      BY DEF InitCrc, CInv
<1>2. CInv /\ [NextCrc]_crc_vars => CInv'
      BY DEF CInv, NextCrc, Send, Damage, crc_vars
<1>3. QED  BY <1>1, <1>2, PTL DEF SpecCrc

LEMMA CInvChecksum == CInv => ChecksumOfModbus
<1> SUFFICES ASSUME CInv PROVE ChecksumOfModbus
    OBVIOUS
<1> DEFINE crc == crc16(msg)  low == Reference \cap (0 .. 7)
           high == {k \in 0 .. 7 : k + 8 \in Reference}
<1>1. Reference = SumOf(crc) /\ crc = [hi |-> crc.hi, lo |-> crc.lo]
      /\ crc.hi \in Byte /\ crc.lo \in Byte
      BY CInvMessage, ReferenceIsSum, CrcIsPair
<1> HIDE DEF crc
<1>2. low = crc.hi /\ high = crc.lo
      BY <1>1, SumOfBits DEF Byte
<1> HIDE DEF low, high
<1>3. crc = [hi |-> low, lo |-> high]
      BY <1>1, <1>2
<1>4. QED  BY <1>3 DEF ChecksumOfModbus, crc, low, high

\* The two tables of modbus-rtu.c and the loop over them compute the checksum
\* of the Modbus protocol, for whatever messages.
THEOREM CrcIsTheProtocols == SpecCrc => []ChecksumOfModbus
BY CInvHolds, CInvChecksum, PTL

-----------------------------------------------------------------------------
(***************************************************************************)
(* Frames as sets of bits, the first byte first.                           *)
(***************************************************************************)
FrameBits(buffer) == {m \in Nat : m < 8 * Len(buffer) /\ m % 8 \in buffer[m \div 8 + 1]}

LEMMA BitPlace ==
    ASSUME NEW m \in Nat
    PROVE  /\ m \div 8 \in Nat /\ m % 8 \in 0 .. 7 /\ 8 * (m \div 8) + (m % 8) = m
           /\ \A n \in Nat : m < 8 * n <=> m \div 8 < n
OBVIOUS

LEMMA PlaceInByte ==
    ASSUME NEW n \in Nat, NEW k \in 0 .. 7
    PROVE  (k + 8 * n) \div 8 = n /\ (k + 8 * n) % 8 = k /\ k + 8 * n \in Nat
OBVIOUS

\* After n bytes the sum of them is left, and what is behind them.
LEMMA BytesShift ==
    ASSUME NEW buffer \in Seq(Byte)
    PROVE  Shifts(SymDiff(0 .. 15, FrameBits(buffer)))[8 * Len(buffer)] = SumOf(crc16(buffer))
<1> DEFINE L == Len(buffer)  c == crc_after(0 .. 7, buffer)  F == FrameBits(buffer)
           Rest(n) == {m \in Nat : m + 8 * n \in F}
           x == SymDiff(0 .. 15, F)
           T == {n \in Nat : n <= L => Shifts(x)[8 * n] = SymDiff(SumOf(c[n]), Rest(n))}
<1>1. 0 .. 7 \in Byte /\ L \in Nat /\ 0 .. 15 \in SUBSET Nat
      BY DEF Byte
<1>2. /\ c[0] = [hi |-> 0 .. 7, lo |-> 0 .. 7]
      /\ \A n \in 1 .. L : c[n] = crc_byte(c[n - 1], buffer[n])
      /\ \A n \in 0 .. L : c[n] \in Crcs
      BY <1>1, CrcAfterFacts
<1>3. F \in SUBSET Nat /\ \A m \in F : m < 8 * L
      BY DEF FrameBits
<1>4. x \in SUBSET Nat
      BY <1>1, <1>3, SymDiffIn
<1>5. ASSUME NEW n \in Nat, n < L, NEW k \in 0 .. 7
      PROVE  (k \in Rest(n)) <=> (k \in buffer[n + 1])
  <2>1. k + 8 * n < 8 * L
        BY <1>1, <1>5
  <2>2. (k + 8 * n \in F) <=> (k \in buffer[n + 1])
        BY <2>1, PlaceInByte DEF FrameBits
  <2> HIDE DEF F
  <2>3. QED  BY <2>2
<1> HIDE DEF c, F
<1>6. 0 \in T
  <2>1. SumOf(c[0]) = 0 .. 15
        BY <1>2, SumOfFirst
  <2>2. Rest(0) = F
    <3>1. \A m \in Nat : m + 8 * 0 = m
          OBVIOUS
    <3>2. QED  BY <1>3, <3>1
  <2>3. 8 * 0 = 0 /\ Shifts(x)[0] = x
        BY <1>4, ShiftsFacts
  <2>4. QED  BY <2>1, <2>2, <2>3
<1>7. ASSUME NEW n \in Nat, n \in T PROVE n + 1 \in T
  <2>1. SUFFICES ASSUME n + 1 <= L
                 PROVE  Shifts(x)[8 * (n + 1)] = SymDiff(SumOf(c[n + 1]), Rest(n + 1))
        OBVIOUS
  <2> DEFINE sum == SumOf(c[n])  byte == buffer[n + 1]  R == Rest(n)
             tail == {m \in R : m >= 8}
  <2>2. n <= L /\ n < L /\ n \in 0 .. L /\ n + 1 \in 1 .. L /\ (n + 1) - 1 = n
        BY <1>1, <2>1
  <2>3. Shifts(x)[8 * n] = SymDiff(sum, R)
        BY <1>7, <2>2
  <2>4. c[n] \in Crcs /\ byte \in Byte /\ c[n + 1] = crc_byte(c[n], byte)
        BY <1>2, <2>2
  <2>5. Shifts(SymDiff(sum, byte))[8] = SumOf(c[n + 1])
        BY <2>4, ByteShifts
  <2>6. \A k \in 0 .. 7 : (k \in R) <=> (k \in byte)
        BY <1>5, <2>2
  <2>7. R \in SUBSET Nat /\ tail \in SUBSET Nat /\ \A k \in tail : k >= 8
        OBVIOUS
  <2>8. \A k \in Nat : (k + 8 \in tail) <=> (k \in Rest(n + 1))
    <3>1. \A k \in Nat : /\ k + 8 \in Nat /\ k + 8 >= 8
                         /\ (k + 8) + 8 * n = k + 8 * (n + 1)
          OBVIOUS
    <3>2. QED  BY <3>1
  <2>9. \A k : (k \in R) <=> ~((k \in byte) <=> (k \in tail))
    <3>1. ASSUME NEW k \in 0 .. 7 PROVE (k \in R) <=> ~((k \in byte) <=> (k \in tail))
      <4>1. ~(k >= 8)
            OBVIOUS
      <4>2. k \notin tail
            BY <4>1
      <4> HIDE DEF R, byte, tail
      <4>3. QED  BY <2>6, <4>2
    <3>2. ASSUME NEW k, k \notin 0 .. 7 PROVE (k \in R) <=> ~((k \in byte) <=> (k \in tail))
      <4>1. k \notin byte
            BY <2>4, <3>2 DEF Byte
      <4>2. (k \in R) <=> (k \in tail)
            BY <2>7, <3>2
      <4>3. QED  BY <4>1, <4>2
    <3>3. QED  BY <3>1, <3>2
  <2>10. Shifts(tail)[8] = Rest(n + 1)
    <3>1. Shifts(tail)[8] \in SUBSET Nat
          BY <2>7, ShiftsFacts
    <3>2. Rest(n + 1) \in SUBSET Nat
          OBVIOUS
    <3> HIDE DEF tail
    <3>3. \A k \in Nat : (k \in Shifts(tail)[8]) <=> (k + 8 \in tail)
          BY <2>7, ShiftsMove
    <3> HIDE DEF Rest
    <3>4. QED  BY <2>8, <3>1, <3>2, <3>3
  <2>11. sum \in SUBSET Nat /\ byte \in SUBSET Nat
    <3>1. sum \in Sums
          BY SumOfBits
    <3> HIDE DEF sum, byte
    <3>2. QED  BY <2>4, <3>1 DEF Sums, Byte
  <2> HIDE DEF sum, byte, R, tail, Rest
  <2>12. SymDiff(sum, R) = SymDiff(SymDiff(sum, byte), tail)
    <3>1. \A k : (k \in SymDiff(sum, R)) <=> ~((k \in sum) <=> (k \in R))
          BY SymDiffMembers
    <3>2. \A k : (k \in SymDiff(SymDiff(sum, byte), tail))
                    <=> ~(~((k \in sum) <=> (k \in byte)) <=> (k \in tail))
          BY SymDiffMembers
    <3>3. QED  BY <2>9, <3>1, <3>2
  <2>13. SymDiff(sum, byte) \in SUBSET Nat
        BY <2>11, SymDiffIn
  <2>14. Shifts(SymDiff(sum, R))[8] = SymDiff(SumOf(c[n + 1]), Rest(n + 1))
        BY <2>5, <2>7, <2>10, <2>12, <2>13, ShiftsOfSum
  <2>15. 8 * n \in Nat /\ 8 * (n + 1) = 8 * n + 8
        OBVIOUS
  <2>16. Shifts(x)[8 * n + 8] = Shifts(Shifts(x)[8 * n])[8]
        BY <1>4, <2>15, ShiftsPlus
  <2>17. QED  BY <2>3, <2>14, <2>15, <2>16
<1> HIDE DEF T
<1>8. \A n \in Nat : n \in T
      BY <1>6, <1>7, Counting
<1>9. Shifts(x)[8 * L] = SymDiff(SumOf(c[L]), Rest(L))
  <2>1. L \in T /\ L <= L
        BY <1>1, <1>8
  <2> HIDE DEF L, x, Rest
  <2>2. QED  BY <2>1 DEF T
<1>10. Rest(L) = {}
      BY <1>1, <1>3
<1>11. SymDiff(SumOf(c[L]), {}) = SumOf(c[L])
      BY SymDiffFacts
<1> HIDE DEF Rest
<1>12. QED  BY <1>9, <1>10, <1>11 DEF c, F, crc16

LEMMA ByteOfItself ==
    ASSUME NEW byte, NEW lo
    PROVE  crc_byte([hi |-> byte, lo |-> lo], byte) = [hi |-> lo, lo |-> {}]
<1>1. Entry(table_crc_hi, {}) = {} /\ Entry(table_crc_lo, {}) = {}
  <2>1. HiBits({}, Entry(table_crc_hi, {})) /\ LoBits({}, Entry(table_crc_lo, {}))
        BY HighTable, LowTable
  <2>2. Entry(table_crc_hi, {}) \in Byte /\ Entry(table_crc_lo, {}) \in Byte
        BY EntryIsByte
  <2>3. QED  BY <2>1, <2>2 DEF HiBits, LoBits, EvenByte, Even4, Byte
<1>2. SymDiff(byte, byte) = {} /\ SymDiff(lo, {}) = lo
      BY SymDiffFacts
<1>3. QED  BY <1>1, <1>2 DEF crc_byte

\* The checksum of a frame with its checksum is nothing.
LEMMA SumWithChecksum ==
    ASSUME NEW frame \in Seq(Byte), NEW L \in Nat, Len(frame) = L + 2,
           crc16(SubSeq(frame, 1, L)) = crc_received(frame)
    PROVE  SumOf(crc16(frame)) = {}
<1> DEFINE p == SubSeq(frame, 1, L)  c == crc_after(0 .. 7, frame)
           d == crc_after(0 .. 7, p)
           T == {n \in Nat : n <= L => c[n] = d[n]}
<1>1. p \in Seq(Byte) /\ Len(p) = L /\ \A n \in 1 .. L : p[n] = frame[n]
      OBVIOUS
<1>2. 0 .. 7 \in Byte
      BY DEF Byte
<1>3. /\ c[0] = [hi |-> 0 .. 7, lo |-> 0 .. 7]
      /\ \A n \in 1 .. L + 2 : c[n] = crc_byte(c[n - 1], frame[n])
  <2>1. \A n \in 1 .. Len(frame) : c[n] = crc_byte(c[n - 1], frame[n])
        BY <1>2, CrcAfterFacts
  <2>2. c[0] = [hi |-> 0 .. 7, lo |-> 0 .. 7]
        BY <1>2, CrcAfterFacts
  <2> HIDE DEF c
  <2>3. QED  BY <2>1, <2>2
<1> HIDE DEF c, p
<1>4. /\ d[0] = [hi |-> 0 .. 7, lo |-> 0 .. 7]
      /\ \A n \in 1 .. L : d[n] = crc_byte(d[n - 1], p[n])
      BY <1>1, <1>2, CrcAfterFacts
<1> HIDE DEF d
<1>5. 0 \in T
      BY <1>3, <1>4
<1>6. ASSUME NEW n \in Nat, n \in T PROVE n + 1 \in T
  <2>1. SUFFICES ASSUME n + 1 <= L PROVE c[n + 1] = d[n + 1]
        OBVIOUS
  <2>2. n <= L /\ n + 1 \in 1 .. L /\ n + 1 \in 1 .. L + 2 /\ (n + 1) - 1 = n
        BY <2>1
  <2>3. c[n] = d[n] /\ p[n + 1] = frame[n + 1]
        BY <1>1, <1>6, <2>2
  <2>4. c[n + 1] = crc_byte(c[n], frame[n + 1]) /\ d[n + 1] = crc_byte(d[n], p[n + 1])
        BY <1>3, <1>4, <2>2
  <2>5. QED  BY <2>3, <2>4
<1> HIDE DEF T
<1>7. \A n \in Nat : n \in T
      BY <1>5, <1>6, Counting
<1>8. c[L] = d[L]
      BY <1>7 DEF T
<1>9. d[L] = [hi |-> frame[L + 1], lo |-> frame[L + 2]]
  <2>1. crc16(p) = d[L]
        BY <1>1 DEF crc16, d
  <2>2. crc_received(frame) = [hi |-> frame[L + 1], lo |-> frame[L + 2]]
        BY DEF crc_received
  <2>3. QED  BY <2>1, <2>2 DEF p
<1> DEFINE b1 == frame[L + 1]  b2 == frame[L + 2]
<1>11. /\ L + 1 \in 1 .. L + 2 /\ L + 2 \in 1 .. L + 2
       /\ (L + 1) - 1 = L /\ (L + 2) - 1 = L + 1
      OBVIOUS
<1>12. c[L + 1] = crc_byte([hi |-> b1, lo |-> b2], b1) /\ c[L + 2] = crc_byte(c[L + 1], b2)
      BY <1>3, <1>8, <1>9, <1>11
<1> HIDE DEF b1, b2
<1>14. c[L + 1] = [hi |-> b2, lo |-> {}]
      BY <1>12, ByteOfItself
<1>15. c[L + 2] = [hi |-> {}, lo |-> {}]
      BY <1>12, <1>14, ByteOfItself
<1>16. SumOf(c[L + 2]) = {}
      BY <1>15 DEF SumOf
<1>17. QED  BY <1>16 DEF crc16, c

-----------------------------------------------------------------------------
(***************************************************************************)
(* What is not found: not an odd number of damaged bits, and not two in a  *)
(* frame of at most 256 bytes.                                             *)
(***************************************************************************)
LEMMA OddIsFound ==
    ASSUME NEW x \in SUBSET Nat, IsFiniteSet(x), NEW n \in Nat, Shifts(x)[n] = {}
    PROVE  ~Odd(x)
<1>1. Odd(Shifts(x)[n]) <=> Odd(x)
      BY OddAfterShifts
<1>2. Cardinality({}) = 0
      BY FS_EmptySet
<1>3. ~Odd({})
      BY <1>2 DEF Odd
<1>4. QED  BY <1>1, <1>3

LEMMA SameSet ==
    ASSUME NEW x \in SUBSET Nat, NEW y \in SUBSET Nat,
           \A k \in Nat : (k \in x) <=> (k \in y)
    PROVE  x = y
OBVIOUS

LEMMA PairMoves ==
    ASSUME NEW a \in Nat, NEW b \in Nat, a < b
    PROVE  Shifts({a, b})[a] = {0, b - a}
<1> DEFINE x == {a, b}  y == {0, b - a}  w == Shifts(x)[a]
<1>1. x \in SUBSET Nat /\ \A k \in x : k >= a
      OBVIOUS
<1>2. (\A k \in Nat : (k + a \in x) <=> (k \in y)) /\ y \in SUBSET Nat
      OBVIOUS
<1> HIDE DEF x, y
<1>3. \A k \in Nat : (k \in w) <=> (k + a \in x)
      BY <1>1, ShiftsMove
<1>4. w \in SUBSET Nat
      BY <1>1, ShiftsFacts
<1> HIDE DEF w
<1>5. \A k \in Nat : (k \in w) <=> (k \in y)
      BY <1>2, <1>3
<1>6. w = y
      BY <1>2, <1>4, <1>5, SameSet
<1>7. QED  BY <1>6 DEF w, x, y

LEMMA TwoAreFound ==
    ASSUME NEW a \in Nat, NEW b \in Nat, a < b, NEW n \in Nat, b < n, n <= 2048
    PROVE  Shifts({a, b})[n] # {}
<1> DEFINE x == {a, b}  d == b - a  rest == n - b  y == {0, d}  z == Shifts({0})[d]
<1>1. SUFFICES ASSUME Shifts(x)[n] = {} PROVE FALSE
      OBVIOUS
<1>2. /\ d \in Nat /\ d # 0 /\ d <= 2047 /\ rest \in Nat
      /\ a + (d + rest) = n /\ d + rest \in Nat
      OBVIOUS
<1>3. x \in SUBSET Nat /\ \A k \in x : k >= a
      OBVIOUS
<1>4. Shifts(x)[a] = y
      BY PairMoves
<1> HIDE DEF x
<1>5. Shifts(x)[n] = Shifts(y)[d + rest]
  <2> HIDE DEF d, rest, y
  <2>1. Shifts(x)[a + (d + rest)] = Shifts(Shifts(x)[a])[d + rest]
        BY <1>2, <1>3, ShiftsPlus
  <2>2. QED  BY <1>2, <1>4, <2>1
<1>6. y = SymDiff({0}, {d}) /\ {0} \in SUBSET Nat /\ {d} \in SUBSET Nat /\ y \in SUBSET Nat
      BY <1>2 DEF SymDiff
<1> HIDE DEF d, rest, y
<1>7. Shifts(y)[d] = SymDiff(z, {0})
  <2>1. Shifts(y)[d] = SymDiff(z, Shifts({d})[d])
        BY <1>2, <1>6, ShiftsOfSum
  <2>2. Shifts({d})[d] = {0}
        BY <1>2, OneBitMoves
  <2>3. QED  BY <2>1, <2>2
<1>8. Shifts(y)[d + rest] = Shifts(Shifts(y)[d])[rest]
  <2>1. y \in SUBSET Nat /\ d \in Nat /\ rest \in Nat
        BY <1>2, <1>6
  <2>2. QED  BY <2>1, ShiftsPlus
<1>9. {0} \in Sums /\ z \in Sums
  <2>1. {0} \in Sums
        BY DEF Sums
  <2>2. QED  BY <1>2, <2>1, ShiftsInSums
<1>10. SymDiff(z, {0}) \in Sums
      BY <1>9 DEF SymDiff, Sums
<1>11. SymDiff(z, {0}) = {}
      BY <1>1, <1>2, <1>5, <1>7, <1>8, <1>10, ShiftsInSums
<1>12. z = {0}
      BY <1>11, SymDiffFacts
<1>13. QED  BY <1>2, <1>12, NoReturn

IsPair(x, a, b) == x = {a, b} /\ a # b

LEMMA PairOf ==
    ASSUME NEW x, IsFiniteSet(x), Cardinality(x) = 2
    PROVE  \E a, b : IsPair(x, a, b)
<1>1. x # {}
      BY FS_EmptySet
<1>2. PICK a : a \in x
      BY <1>1
<1> DEFINE others == x \ {a}
<1>3. IsFiniteSet(others) /\ Cardinality(others) = 1
      BY <1>2, FS_RemoveElement
<1> HIDE DEF others
<1>4. others # {}
      BY <1>3, FS_EmptySet
<1>5. PICK b : b \in others
      BY <1>4
<1>6. IsFiniteSet(others \ {b}) /\ Cardinality(others \ {b}) = 0
      BY <1>3, <1>5, FS_RemoveElement
<1>7. others \ {b} = {}
      BY <1>6, FS_EmptySet
<1>8. \A e : (e \in x) <=> (e = a \/ e = b)
  <2>1. \A e : e \in others => e = b
        BY <1>7
  <2>2. \A e : (e \in others) <=> (e \in x /\ e # a)
        BY DEF others
  <2>3. QED  BY <1>2, <1>5, <2>1, <2>2
<1>9. x = {a, b}
      BY <1>8
<1>10. a # b
      BY <1>5 DEF others
<1>11. IsPair(x, a, b)
      BY <1>9, <1>10 DEF IsPair
<1>12. QED  BY <1>11, Zenon

LEMMA FewAreFound ==
    ASSUME NEW x \in SUBSET Nat, IsFiniteSet(x), Cardinality(x) <= 3,
           NEW n \in Nat, n <= 2048, \A k \in x : k < n, Shifts(x)[n] = {}
    PROVE  x = {}
<1>1. Cardinality(x) \in Nat /\ ~(Cardinality(x) % 2 = 1)
      BY OddIsFound, FS_CardinalityType DEF Odd
<1>2. Cardinality(x) = 0 \/ Cardinality(x) = 2
      BY <1>1
<1>3. CASE Cardinality(x) = 0
      BY <1>3, FS_EmptySet
<1>4. CASE Cardinality(x) = 2
  <2>1. PICK a, b : IsPair(x, a, b)
        BY <1>4, PairOf
  <2>2. /\ x = {a, b} /\ x = {b, a} /\ a # b
        /\ a \in Nat /\ b \in Nat /\ a < n /\ b < n
        BY <2>1 DEF IsPair
  <2>3. a < b \/ b < a
        BY <2>2
  <2>4. QED  BY <2>2, <2>3, TwoAreFound
<1>5. QED  BY <1>2, <1>3, <1>4

-----------------------------------------------------------------------------
(***************************************************************************)
(* A damaged frame.                                                        *)
(***************************************************************************)
\* The damaged bits are bits of the frame, as many as there may be.
FInv ==
    /\ CInv
    /\ flipped \in SUBSET Nat /\ \A bit \in flipped : bit < 8 * (Len(msg) + 2)
    /\ IsFiniteSet(flipped) /\ Cardinality(flipped) <= MaxDamage
    /\ msg = <<>> => flipped = {}

LEMMA InitFInv == InitCrc => FInv
<1> SUFFICES ASSUME InitCrc PROVE FInv
    OBVIOUS
<1>1. Cardinality({}) = 0 /\ IsFiniteSet({}) /\ MaxDamage \in Nat
      BY FS_EmptySet, CrcAssumption
<1>2. QED  BY <1>1 DEF InitCrc, FInv, CInv

LEMMA NextFInv == FInv /\ [NextCrc]_crc_vars => FInv'
<1> SUFFICES ASSUME FInv, [NextCrc]_crc_vars PROVE FInv'
    OBVIOUS
<1>1. ASSUME NEW m \in Messages, Send(m) PROVE FInv'
  <2>1. msg' = m /\ flipped' = {} /\ flipped = {}
        BY <1>1 DEF Send, FInv
  <2>2. QED  BY <2>1 DEF FInv, CInv
<1>2. ASSUME NEW bit \in 0 .. 8 * (Len(msg) + 2) - 1, Damage(bit) PROVE FInv'
  <2>1. msg \in Messages /\ msg' = msg /\ flipped' = flipped \cup {bit}
        /\ Cardinality(flipped) < MaxDamage
        BY <1>2, CrcAssumption DEF Damage
  <2>2. Len(msg) \in Nat /\ msg # <<>>
    <3> DEFINE L == Len(msg)
    <3>1. L \in 1 .. 254
          BY <2>1, CrcAssumption
    <3> HIDE DEF L
    <3>2. L \in Nat /\ L # 0
          BY <3>1
    <3>3. Len(<<>>) = 0
          OBVIOUS
    <3>4. QED  BY <3>2, <3>3, Zenon DEF L
  <2>3. bit \in Nat /\ bit < 8 * (Len(msg) + 2)
        BY <2>2
  <2>4. IsFiniteSet(flipped) /\ Cardinality(flipped) \in Nat
        BY FS_CardinalityType DEF FInv
  <2>5. IsFiniteSet(flipped \cup {bit}) /\ Cardinality(flipped \cup {bit}) <= MaxDamage
    <3>1. MaxDamage \in Nat
          BY CrcAssumption
    <3>2. /\ IsFiniteSet(flipped \cup {bit})
          /\ Cardinality(flipped \cup {bit})
                = IF bit \in flipped THEN Cardinality(flipped) ELSE Cardinality(flipped) + 1
          BY <2>4, FS_AddElement
    <3> DEFINE c == Cardinality(flipped)
    <3>3. c \in Nat /\ c < MaxDamage
          BY <2>1, <2>4
    <3> HIDE DEF c
    <3>4. (IF bit \in flipped THEN c ELSE c + 1) <= MaxDamage
          BY <3>1, <3>3
    <3>5. QED  BY <3>2, <3>4 DEF c
  <2>6. QED  BY <2>1, <2>2, <2>3, <2>5 DEF FInv, CInv
<1>3. CASE UNCHANGED crc_vars
      BY <1>3 DEF crc_vars, FInv, CInv
<1>4. QED  BY <1>1, <1>2, <1>3 DEF NextCrc

LEMMA FInvHolds == SpecCrc => []FInv
BY InitFInv, NextFInv, PTL DEF SpecCrc

\* A frame, as it is sent and as it is received.
LEMMA FrameFacts ==
    ASSUME FInv, msg # <<>>
    PROVE  /\ msg \in Seq(Byte) /\ Len(msg) \in 1 .. 254
           /\ send_msg_pre(msg) \in Seq(Byte) /\ Len(send_msg_pre(msg)) = Len(msg) + 2
           /\ SubSeq(send_msg_pre(msg), 1, Len(msg)) = msg
           /\ \A i \in 1 .. Len(msg) : send_msg_pre(msg)[i] = msg[i]
           /\ crc_received(send_msg_pre(msg)) = crc16(msg)
           /\ Received \in Seq(Byte) /\ Len(Received) = Len(msg) + 2
           /\ FrameBits(Received) = SymDiff(FrameBits(send_msg_pre(msg)), flipped)
           /\ flipped = {} => Received = send_msg_pre(msg)
<1> DEFINE L == Len(msg)  plain == send_msg_pre(msg)  crc == crc16(msg)
           marks(i) == {k \in 0 .. 7 : 8 * (i - 1) + k \in flipped}
           frame == [i \in 1 .. Len(plain) |-> SymDiff(plain[i], marks(i))]
<1>1. msg \in Messages /\ msg \in Seq(Byte) /\ L \in 1 .. 254
      BY CrcAssumption DEF FInv, CInv
<1>2. crc.hi \in Byte /\ crc.lo \in Byte /\ crc = [hi |-> crc.hi, lo |-> crc.lo]
      BY <1>1, CrcIsPair, SMTT(20)
<1>3. plain = msg \o <<crc.hi, crc.lo>>
      BY DEF send_msg_pre
<1> HIDE DEF crc
<1>4. /\ plain \in Seq(Byte) /\ Len(plain) = L + 2
      /\ \A i \in 1 .. L : plain[i] = msg[i]
      /\ plain[L + 1] = crc.hi /\ plain[L + 2] = crc.lo
      BY <1>1, <1>2, <1>3, SMTT(20)
<1> HIDE DEF plain
<1>5. SubSeq(plain, 1, L) = msg
      BY <1>1, <1>4, SMTT(20)
<1>6. crc_received(plain) = crc
  <2>1. crc_received(plain) = [hi |-> plain[L + 1], lo |-> plain[L + 2]]
        BY <1>1, <1>4 DEF crc_received
  <2>2. QED  BY <1>2, <1>4, <2>1
<1>7. Received = frame
      BY DEF Received, plain
<1>8. \A i \in 1 .. L + 2 : plain[i] \in Byte /\ frame[i] \in Byte
  <2>1. ASSUME NEW i \in 1 .. L + 2 PROVE plain[i] \in Byte
        BY <1>4
  <2>2. ASSUME NEW i \in 1 .. L + 2 PROVE marks(i) \in Byte
        BY DEF Byte
  <2> HIDE DEF marks
  <2>3. ASSUME NEW i \in 1 .. L + 2 PROVE frame[i] \in Byte
        BY <1>4, <2>1, <2>2, SymDiffOfBytes, SMTT(20)
  <2>4. QED  BY <2>1, <2>3
<1>9. frame \in Seq(Byte) /\ Len(frame) = L + 2
      BY <1>1, <1>4, <1>8
<1>10. \A i \in 1 .. L + 2 : \A k \in 0 .. 7 :
          (k \in frame[i]) <=> ~((k \in plain[i]) <=> (8 * (i - 1) + k \in flipped))
  <2>1. ASSUME NEW i \in 1 .. L + 2, NEW k \in 0 .. 7
        PROVE  (k \in frame[i]) <=> ~((k \in plain[i]) <=> (8 * (i - 1) + k \in flipped))
    <3>1. frame[i] = SymDiff(plain[i], marks(i))
          BY <1>4
    <3>2. (k \in marks(i)) <=> (8 * (i - 1) + k \in flipped)
          OBVIOUS
    <3> HIDE DEF frame, marks
    <3>3. QED  BY <3>1, <3>2, SymDiffMembers
  <2>2. QED  BY <2>1
<1> HIDE DEF frame
<1>11. ASSUME NEW m \in Nat
       PROVE  (m \in FrameBits(frame)) <=> ~((m \in FrameBits(plain)) <=> (m \in flipped))
  <2> DEFINE i == m \div 8 + 1  k == m % 8
  <2>1. CASE m < 8 * (L + 2)
    <3>1. i \in 1 .. L + 2 /\ k \in 0 .. 7 /\ 8 * (i - 1) + k = m
      <4>1. m \div 8 \in Nat /\ m % 8 \in 0 .. 7 /\ 8 * (m \div 8) + (m % 8) = m
            BY BitPlace
      <4>2. m \div 8 < L + 2
            BY <1>1, <2>1, BitPlace
      <4>3. QED  BY <1>1, <4>1, <4>2
    <3>2. (m \in FrameBits(frame)) <=> (k \in frame[i])
          BY <1>9, <2>1 DEF FrameBits
    <3>3. (m \in FrameBits(plain)) <=> (k \in plain[i])
          BY <1>4, <2>1 DEF FrameBits
    <3> HIDE DEF i, k
    <3>4. QED  BY <1>10, <3>1, <3>2, <3>3
  <2>2. CASE ~(m < 8 * (L + 2))
    <3>1. m \notin FrameBits(frame) /\ m \notin FrameBits(plain)
          BY <1>4, <1>9, <2>2 DEF FrameBits
    <3>2. m \notin flipped
          BY <2>2 DEF FInv
    <3>3. QED  BY <3>1, <3>2
  <2>3. QED  BY <2>1, <2>2
<1>12. FrameBits(frame) = SymDiff(FrameBits(plain), flipped)
  <2>1. /\ FrameBits(frame) \in SUBSET Nat /\ FrameBits(plain) \in SUBSET Nat
        /\ flipped \in SUBSET Nat
        BY DEF FrameBits, FInv
  <2>2. SymDiff(FrameBits(plain), flipped) \in SUBSET Nat
        BY <2>1, SymDiffIn
  <2>3. \A m : (m \in SymDiff(FrameBits(plain), flipped))
                  <=> ~((m \in FrameBits(plain)) <=> (m \in flipped))
        BY SymDiffMembers
  <2>4. QED  BY <1>11, <2>1, <2>2, <2>3
<1>13. ASSUME flipped = {} PROVE frame = plain
  <2>1. \A i \in 1 .. L + 2 : frame[i] = plain[i]
    <3>1. ASSUME NEW i \in 1 .. L + 2 PROVE frame[i] = plain[i]
      <4>1. frame[i] \in Byte /\ plain[i] \in Byte
            BY <1>8
      <4>2. \A k \in 0 .. 7 : (k \in frame[i]) <=> (k \in plain[i])
            BY <1>10, <1>13
      <4>3. QED  BY <4>1, <4>2 DEF Byte
    <3>2. QED  BY <3>1
  <2>2. QED  BY <1>4, <1>9, <2>1
<1>14. QED  BY <1>1, <1>4, <1>5, <1>6, <1>7, <1>9, <1>12, <1>13, Zenon DEF plain, crc

\* What is taken although it is damaged, shifts away.
LEMMA TakenShiftsAway ==
    ASSUME FInv, msg # <<>>, check_integrity(Received) = Len(Received)
    PROVE  /\ Shifts(flipped)[8 * (Len(msg) + 2)] = {}
           /\ Received[1] \in {Slave, {}}
<1> DEFINE L == Len(msg)  plain == send_msg_pre(msg)  frame == Received
           n == 8 * (L + 2)  x == SymDiff(0 .. 15, FrameBits(plain))
           y == SymDiff(0 .. 15, FrameBits(frame))
<1>0. /\ L \in 1 .. 254
      /\ plain \in Seq(Byte) /\ Len(plain) = L + 2 /\ SubSeq(plain, 1, L) = msg
      /\ crc_received(plain) = crc16(msg)
      /\ frame \in Seq(Byte) /\ Len(frame) = L + 2
      /\ FrameBits(frame) = SymDiff(FrameBits(plain), flipped)
      BY FrameFacts, Zenon
<1> HIDE DEF plain, frame, L
<1>1. L \in Nat
      BY <1>0
<1>2. check_integrity(frame) = L + 2
      BY <1>0 DEF frame
<1>3. frame[1] \in {Slave, {}} /\ crc16(SubSeq(frame, 1, L)) = crc_received(frame)
  <2>1. Len(frame) - 2 = L /\ L + 2 # 0 /\ L + 2 # -1
        BY <1>0, <1>1
  <2>2. QED  BY <1>2, <2>1 DEF check_integrity
<1>4. SumOf(crc16(plain)) = {} /\ SumOf(crc16(frame)) = {}
      BY <1>0, <1>1, <1>3, SumWithChecksum
<1>5. Shifts(x)[n] = {} /\ Shifts(y)[n] = {}
      BY <1>0, <1>1, <1>4, BytesShift
<1>6. /\ 0 .. 15 \in SUBSET Nat /\ FrameBits(plain) \in SUBSET Nat
      /\ FrameBits(frame) \in SUBSET Nat /\ n \in Nat
      BY <1>0, <1>1 DEF FrameBits
<1>7. x \in SUBSET Nat /\ y \in SUBSET Nat
      BY <1>6, SymDiffIn
<1>8. SymDiff(x, y) = flipped
  <2>1. \A k : (k \in SymDiff(x, y)) <=> ~((k \in x) <=> (k \in y))
        BY SymDiffMembers
  <2>2. \A k : (k \in x) <=> ~((k \in 0 .. 15) <=> (k \in FrameBits(plain)))
        BY SymDiffMembers
  <2>3. \A k : (k \in y) <=> ~((k \in 0 .. 15) <=> (k \in FrameBits(frame)))
        BY SymDiffMembers
  <2>4. \A k : (k \in FrameBits(frame)) <=> ~((k \in FrameBits(plain)) <=> (k \in flipped))
        BY <1>0, <1>1, SymDiffMembers
  <2> DEFINE ones == 0 .. 15
  <2> HIDE DEF x, y, ones
  <2>5. \A k : (k \in SymDiff(x, y)) <=> (k \in flipped)
        BY <2>1, <2>2, <2>3, <2>4 DEF ones
  <2>6. QED  BY <2>5
<1> HIDE DEF x, y, n
<1>9. Shifts(SymDiff(x, y))[n] = SymDiff(Shifts(x)[n], Shifts(y)[n])
      BY <1>6, <1>7, ShiftsOfSum
<1>10. Shifts(flipped)[n] = {}
      BY <1>5, <1>8, <1>9, SymDiffFacts
<1>11. QED  BY <1>3, <1>10 DEF n, L, frame

LEMMA FInvOnlyIntact ==
    ASSUME MaxDamage <= 3
    PROVE  FInv => OnlyIntact
<1> SUFFICES ASSUME FInv, msg # <<>>
             PROVE  (check_integrity(Received) = Len(Received))
                       <=> (flipped = {} /\ msg[1] \in {Slave, {}})
    BY DEF OnlyIntact
<1> DEFINE L == Len(msg)  plain == send_msg_pre(msg)
<1>1. /\ L \in 1 .. 254 /\ Len(plain) = L + 2
      /\ SubSeq(plain, 1, L) = msg /\ crc_received(plain) = crc16(msg)
      /\ \A i \in 1 .. L : plain[i] = msg[i]
      /\ flipped = {} => Received = plain
      BY FrameFacts, Zenon
<1> HIDE DEF L, plain
<1>2. flipped = {} => Received = plain /\ Received[1] = msg[1]
      BY <1>1
<1>3. ASSUME check_integrity(Received) = Len(Received)
      PROVE  flipped = {} /\ msg[1] \in {Slave, {}}
  <2>1. Shifts(flipped)[8 * (L + 2)] = {} /\ Received[1] \in {Slave, {}}
        BY <1>3, TakenShiftsAway DEF L
  <2>2. 8 * (L + 2) \in Nat /\ 8 * (L + 2) <= 2048
        BY <1>1
  <2>3. /\ flipped \in SUBSET Nat /\ IsFiniteSet(flipped) /\ Cardinality(flipped) <= 3
        /\ \A bit \in flipped : bit < 8 * (L + 2)
    <3>1. Cardinality(flipped) \in Nat /\ MaxDamage \in Nat
          BY FS_CardinalityType, CrcAssumption DEF FInv
    <3>2. QED  BY <3>1 DEF FInv, L
  <2>4. flipped = {}
        BY <2>1, <2>2, <2>3, FewAreFound
  <2>5. QED  BY <1>2, <2>1, <2>4
<1>4. ASSUME flipped = {}, msg[1] \in {Slave, {}}
      PROVE  check_integrity(Received) = Len(Received)
  <2>1. Received = plain /\ plain[1] \in {Slave, {}}
        BY <1>2, <1>4
  <2>2. SubSeq(plain, 1, Len(plain) - 2) = msg
    <3>1. Len(plain) - 2 = L
          BY <1>1
    <3>2. QED  BY <1>1, <3>1
  <2>3. crc16(SubSeq(plain, 1, Len(plain) - 2)) = crc_received(plain)
        BY <1>1, <2>2
  <2>4. QED  BY <2>1, <2>3 DEF check_integrity
<1>5. QED  BY <1>3, <1>4

\* Of whatever messages of up to 254 bytes, the receiver takes those for itself
\* or for everyone exactly when nothing in the frame is damaged, if at most
\* three bits are.  Of four damaged bits some are not found, the four of the
\* polynomial for one.
THEOREM UpToThreeBitsFound ==
    ASSUME MaxDamage <= 3
    PROVE  SpecCrc => []OnlyIntact
BY FInvHolds, FInvOnlyIntact, PTL

\* However many bits are damaged, an odd number of them is found.
OddDamageRefused ==
    msg # <<>> /\ Odd(flipped) => check_integrity(Received) # Len(Received)

LEMMA FInvOddDamage == FInv => OddDamageRefused
<1> SUFFICES ASSUME FInv, msg # <<>>, Odd(flipped),
                    check_integrity(Received) = Len(Received)
             PROVE  FALSE
    BY DEF OddDamageRefused
<1>1. Shifts(flipped)[8 * (Len(msg) + 2)] = {}
      BY TakenShiftsAway
<1>2. 8 * (Len(msg) + 2) \in Nat
      BY FrameFacts
<1>3. QED  BY <1>1, <1>2, OddIsFound DEF FInv

\* Of whatever messages of up to 254 bytes, and however many bits are damaged,
\* the receiver takes no frame with an odd number of damaged bits.
THEOREM OddNumbersFound == SpecCrc => []OddDamageRefused
BY FInvHolds, FInvOddDamage, PTL
=============================================================================
