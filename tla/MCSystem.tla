------------------------------- MODULE MCSystem -------------------------------
(***************************************************************************)
(* Instances of ModbusSystem for TLC.                                      *)
(***************************************************************************)
EXTENDS ModbusSystem, TLC

MCNb == [t \in Tables |-> IF t = "registers" THEN 3 ELSE 2]

Request(fn, address, nb, values, address_write) ==
    [fn |-> fn, address |-> address, nb |-> nb, values |-> values,
     address_write |-> address_write,
     wnb |-> IF fn = FC_WRITE_AND_READ_REGISTERS THEN Len(values) ELSE 0]

\* Every function, inside its table, up to its end and across it.
AllFunctions ==
    {Request(FC_READ_COILS, 0, 2, <<>>, 0), Request(FC_READ_COILS, 1, 2, <<>>, 0),
     Request(FC_READ_DISCRETE_INPUTS, 1, 1, <<>>, 0),
     Request(FC_READ_HOLDING_REGISTERS, 0, 3, <<>>, 0),
     Request(FC_READ_HOLDING_REGISTERS, 2, 2, <<>>, 0),
     Request(FC_READ_INPUT_REGISTERS, 1, 2, <<>>, 0),
     Request(FC_WRITE_SINGLE_COIL, 1, COIL_ON, <<>>, 0),
     Request(FC_WRITE_SINGLE_COIL, 1, 0, <<>>, 0),
     Request(FC_WRITE_SINGLE_COIL, 2, COIL_ON, <<>>, 0),
     Request(FC_WRITE_SINGLE_REGISTER, 2, 7, <<>>, 0),
     Request(FC_WRITE_SINGLE_REGISTER, 3, 7, <<>>, 0),
     Request(FC_WRITE_MULTIPLE_COILS, 0, 2, <<0, 1>>, 0),
     Request(FC_WRITE_MULTIPLE_REGISTERS, 1, 2, <<5, 6>>, 0),
     Request(FC_WRITE_MULTIPLE_REGISTERS, 2, 2, <<5, 6>>, 0),
     Request(FC_REPORT_SLAVE_ID, 0, 1, <<>>, 0),
     Request(FC_WRITE_AND_READ_REGISTERS, 0, 2, <<8, 9>>, 1),
     Request(FC_WRITE_AND_READ_REGISTERS, 2, 2, <<8, 9>>, 1),
     Request(FC_WRITE_AND_READ_REGISTERS, 1, 1, <<8, 9>>, 2)}

\* One register that several clients read and write.
OneRegister ==
    {Request(FC_READ_HOLDING_REGISTERS, 0, 1, <<>>, 0),
     Request(FC_WRITE_SINGLE_REGISTER, 0, 7, <<>>, 0)}

CONSTANTS c1, c2

MCRequests == AllFunctions \cup OneRegister

\* One client alone uses every function, in up to three calls; two share one
\* register, in up to two calls each, the second connecting before the first
\* calls.
Few ==
    conn[c2] > 0 => \A c \in Clients : n[c] <= 2 /\ (n[c] > 0 => req[c] \in OneRegister)

MCNext ==
    /\ Next
    /\ Few'
    /\ conn[c2] = 0 /\ conn'[c2] > 0 => n[c1] = 0

MCSpec == Init /\ [][MCNext]_vars
=============================================================================
