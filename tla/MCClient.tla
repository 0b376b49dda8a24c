------------------------------- MODULE MCClient -------------------------------
(* Instances of ModbusClient for TLC: one slave and a second one, two reads   *)
(* that only differ in their address, a write, and a read above the limit.    *)
EXTENDS ModbusClient

Read(slave, addr, nb) ==
    [slave |-> slave, fn |-> FC_READ_HOLDING_REGISTERS, addr |-> addr, nb |-> nb, wnb |-> 0]

Write(slave, addr, nb) ==
    [slave |-> slave, fn |-> FC_WRITE_MULTIPLE_REGISTERS, addr |-> addr, nb |-> nb, wnb |-> 0]

ReadBits(slave, addr, nb) ==
    [slave |-> slave, fn |-> FC_READ_COILS, addr |-> addr, nb |-> nb, wnb |-> 0]

TcpRequests == {Read(1, 0, 1), Write(1, 0, 1), Read(1, 0, 126)}

RtuRequests == {Read(1, 0, 1), Read(1, 1, 1), Read(2, 0, 1), ReadBits(1, 0, 9),
                ReadBits(1, 0, 16)}
=============================================================================
