------------------------------- MODULE MCDevice -------------------------------
(* Instances of ModbusDevice for TLC.                                         *)
EXTENDS ModbusDevice

CONSTANTS d1, d2

One == {d1}
Two == {d1, d2}
NoDevice == {}
=============================================================================
