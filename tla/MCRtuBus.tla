------------------------------- MODULE MCRtuBus -------------------------------
(***************************************************************************)
(* Instances of ModbusRtuBus for TLC: two slaves, and a function of which  *)
(* a request has too many bytes for an answer and an answer too few for a  *)
(* request: mistaking one for the other leaves a slave out of step in      *)
(* either way.                                                             *)
(***************************************************************************)
EXTENDS ModbusRtuBus

MCFunctions == {FC_READ_HOLDING_REGISTERS}
=============================================================================
