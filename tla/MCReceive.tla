------------------------------ MODULE MCReceive ------------------------------
(* Instance of ModbusReceive for TLC: every function of the client API with   *)
(* the quantities around its byte boundaries and at its limit.                *)
EXTENDS ModbusReceive

Quantities(fn) == {0, 1, 8, 9, MaxQuantity(fn)} \cap (0 .. MaxQuantity(fn))

MCRequests ==
    UNION {[fn : {fn}, nb : Quantities(fn),
            wnb : {0, 1, MaxWriteQuantity(fn)} \cap (0 .. MaxWriteQuantity(fn))]
            : fn \in ClientFunctions}

MCIdLengths == {2, 251}

MCNoise ==
    [fn : {0, 3, 6, 7, 16, 23, 131, 255}, count : {0, 249, 255}, len : {4, 300}]

MCPieces == {1, 6, 7, 8, 40, 250}
=============================================================================
