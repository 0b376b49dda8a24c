------------------------------- MODULE MCStream -------------------------------
(***************************************************************************)
(* Instances of ModbusStream for TLC.                                      *)
(***************************************************************************)
EXTENDS ModbusStream

\* Registers that, read from their middle, look like the function code of a
\* read with a byte count above any limit, and one that does not.
MCData == {<<0, 1>>, <<0, 0, 0, 0>>, <<3, 255, 3, 255>>}
=============================================================================
