----------------------------- MODULE ModbusServer -----------------------------
(***************************************************************************)
(* The server side of libmodbus: modbus_reply (modbus.c) over the four     *)
(* tables of a modbus_mapping_t, as a function from the tables and a       *)
(* request to the tables afterwards and the answer.                        *)
(*                                                                         *)
(* A request is its function code `fn', the fields `address' and `nb' (the *)
(* value, for a single write), the words or bits `values' it carries, and  *)
(* `address_write' and `wnb' for the combined write.  How words and bits   *)
(* are laid out in bytes is module ModbusData.                             *)
(***************************************************************************)
EXTENDS ModbusPdu, Sequences

CONSTANT Nb       \* the sizes of the tables, by name

Tables == {"bits", "input_bits", "registers", "input_registers"}

ASSUME SizeAssumption == Nb \in [Tables -> Nat]

ILLEGAL_FUNCTION     == 1
ILLEGAL_DATA_ADDRESS == 2
ILLEGAL_DATA_VALUE   == 3

\* A coil that is on, as it stands in a request to write one.
COIL_ON == 65280

\* All tables are filled with zeroes.
modbus_mapping_new == [t \in Tables |-> [i \in 0 .. Nb[t] - 1 |-> 0]]

\* The table a function works on.
TableOf(fn) ==
    CASE fn \in {FC_READ_COILS, FC_WRITE_SINGLE_COIL, FC_WRITE_MULTIPLE_COILS} -> "bits"
      [] fn = FC_READ_DISCRETE_INPUTS -> "input_bits"
      [] fn = FC_READ_INPUT_REGISTERS -> "input_registers"
      [] OTHER -> "registers"

\* The cells address, address + 1, ... of a table.  What lies behind the end of
\* a table is not a cell of it: a store there would enlarge its domain, a fetch
\* from there would bring Outside.
Outside == -1

Store(table, address, values) ==
    LET touched == address .. address + Len(values) - 1
    IN  [i \in DOMAIN table \cup touched |->
            IF i \in touched THEN values[i - address + 1] ELSE table[i]]

Fetch(table, address, nb) ==
    [k \in 1 .. nb |-> IF address + k - 1 \in DOMAIN table
                         THEN table[address + k - 1] ELSE Outside]

Replied(mem, values)   == [mem |-> mem, code |-> 0, values |-> values]
response_exception(mem, code) == [mem |-> mem, code |-> code, values |-> <<>>]

Read(mem, r) ==
    LET t == TableOf(r.fn)
    IN  IF r.address + r.nb > Nb[t]
          THEN response_exception(mem, ILLEGAL_DATA_ADDRESS)
          ELSE Replied(mem, Fetch(mem[t], r.address, r.nb))

\* Any value but on and off is refused.
WriteCoil(mem, r) ==
    CASE r.address >= Nb["bits"] -> response_exception(mem, ILLEGAL_DATA_ADDRESS)
      [] r.address < Nb["bits"] /\ r.nb \notin {COIL_ON, 0} ->
           response_exception(mem, ILLEGAL_DATA_VALUE)
      [] OTHER ->
           Replied([mem EXCEPT !["bits"] =
                       Store(@, r.address, <<IF r.nb = 0 THEN 0 ELSE 1>>)], <<>>)

\* Mutant: the first address behind the table is let through.
WriteRegister_OffByOne(mem, r) ==
    IF r.address > Nb["registers"]
      THEN response_exception(mem, ILLEGAL_DATA_ADDRESS)
      ELSE Replied([mem EXCEPT !["registers"] = Store(@, r.address, <<r.nb>>)], <<>>)

WriteRegister(mem, r) ==
    IF r.address >= Nb["registers"]
      THEN response_exception(mem, ILLEGAL_DATA_ADDRESS)
      ELSE Replied([mem EXCEPT !["registers"] = Store(@, r.address, <<r.nb>>)], <<>>)

\* As many values as the quantity says are stored.
WriteMultiple(mem, r) ==
    LET t == TableOf(r.fn)
    IN  IF r.address + r.nb > Nb[t]
          THEN response_exception(mem, ILLEGAL_DATA_ADDRESS)
          ELSE Replied([mem EXCEPT ![t] = Store(@, r.address, SubSeq(r.values, 1, r.nb))],
                       <<>>)

\* Mutant: the answer is taken before the write.
WriteAndRead_ReadFirst(mem, r) ==
    IF r.address + r.nb > Nb["registers"] \/ r.address_write + r.wnb > Nb["registers"]
      THEN response_exception(mem, ILLEGAL_DATA_ADDRESS)
      ELSE Replied([mem EXCEPT !["registers"] =
                       Store(@, r.address_write, SubSeq(r.values, 1, r.wnb))],
                   Fetch(mem["registers"], r.address, r.nb))

\* Both ranges are looked at before the first value is stored; the values are
\* stored first, then those for the answer are read.
WriteAndRead(mem, r) ==
    IF r.address + r.nb > Nb["registers"] \/ r.address_write + r.wnb > Nb["registers"]
      THEN response_exception(mem, ILLEGAL_DATA_ADDRESS)
      ELSE LET written == Store(mem["registers"], r.address_write,
                                SubSeq(r.values, 1, r.wnb))
           IN  Replied([mem EXCEPT !["registers"] = written],
                       Fetch(written, r.address, r.nb))

\* A request nobody answers: modbus_reply returns -1 and sends nothing.
Unanswered == -1
NoReply(mem) == [mem |-> mem, code |-> Unanswered, values |-> <<>>]

\* The tables after a request and the answer to it.  What a device says of
\* itself to a report_slave_id request is not in the tables.
modbus_reply(mem, r) ==
    CASE r.fn \in BitReads \cup RegisterReads -> Read(mem, r)
      [] r.fn = FC_WRITE_SINGLE_COIL          -> WriteCoil(mem, r)
      [] r.fn = FC_WRITE_SINGLE_REGISTER      -> WriteRegister(mem, r)
      [] r.fn \in MultipleWrites              -> WriteMultiple(mem, r)
      [] r.fn = FC_WRITE_AND_READ_REGISTERS   -> WriteAndRead(mem, r)
      [] r.fn = FC_REPORT_SLAVE_ID            -> Replied(mem, <<>>)
      [] r.fn = FC_READ_EXCEPTION_STATUS      -> NoReply(mem)
      [] OTHER -> response_exception(mem, ILLEGAL_FUNCTION)
=============================================================================
