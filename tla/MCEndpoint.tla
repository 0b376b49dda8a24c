------------------------------ MODULE MCEndpoint ------------------------------
(***************************************************************************)
(* Instances of ModbusEndpoint for TLC.                                    *)
(***************************************************************************)
EXTENDS ModbusEndpoint, TLC

Symmetry == Permutations(Contexts)
=============================================================================
