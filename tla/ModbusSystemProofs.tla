-------------------------- MODULE ModbusSystemProofs --------------------------
(***************************************************************************)
(* modbus_reply on tables of any size: which handler answers a request,    *)
(* and that none of them reads or writes outside a table.  Then any number *)
(* of clients and one server, for any number of transaction identifiers,   *)
(* calls and connections: what the clients get, that modbus_reply is the   *)
(* operation of ModbusMemory, that the system implements ModbusMemory, and *)
(* the types.                                                              *)
(***************************************************************************)
EXTENDS ModbusSystem, SequenceTheorems, TLAPS

(***************************************************************************)
(* The server.                                                             *)
(***************************************************************************)
Table(t) == [0 .. Nb[t] - 1 -> Nat]

TablesOK(tab) ==
    /\ tab = [t \in Tables |-> tab[t]]
    /\ \A t \in Tables : tab[t] \in Table(t)

\* A request of the client API: as many values as it says, and not none.
WellFormed(r) ==
    /\ r.fn \in ClientFunctions /\ r.address \in Nat /\ r.address_write \in Nat
    /\ r.nb \in Nat /\ r.wnb \in Nat /\ r.values \in Seq(Nat)
    /\ r.fn \notin SingleWrites => r.nb >= 1
    /\ r.fn \in MultipleWrites => Len(r.values) = r.nb
    /\ r.fn = FC_WRITE_SINGLE_COIL => r.nb \in {COIL_ON, 0}
    /\ r.fn = FC_WRITE_AND_READ_REGISTERS => r.wnb >= 1 /\ Len(r.values) = r.wnb

-----------------------------------------------------------------------------
\* Storing inside a table changes the cells named and no other.
LEMMA StoreInside ==
    ASSUME NEW t \in Tables, NEW table \in Table(t), NEW address \in Nat,
           NEW values \in Seq(Nat), address + Len(values) <= Nb[t]
    PROVE  /\ Store(table, address, values) \in Table(t)
           /\ \A i \in 0 .. Nb[t] - 1 :
                 Store(table, address, values)[i] =
                    IF i \in address .. address + Len(values) - 1
                      THEN values[i - address + 1] ELSE table[i]
<1>1. Nb[t] \in Nat /\ Len(values) \in Nat /\ values \in [1 .. Len(values) -> Nat]
  BY SizeAssumption, LenProperties
<1>2. /\ DOMAIN table = 0 .. Nb[t] - 1
      /\ \A i \in 0 .. Nb[t] - 1 : table[i] \in Nat
  BY DEF Table
<1>3. (DOMAIN table) \cup (address .. address + Len(values) - 1) = 0 .. Nb[t] - 1
  BY <1>1, <1>2
<1>4. Store(table, address, values) =
        [i \in 0 .. Nb[t] - 1 |->
            IF i \in address .. address + Len(values) - 1
              THEN values[i - address + 1] ELSE table[i]]
  BY <1>3 DEF Store
<1>5. ASSUME NEW i \in 0 .. Nb[t] - 1, i \in address .. address + Len(values) - 1
      PROVE  values[i - address + 1] \in Nat
  <2>1. i - address + 1 \in 1 .. Len(values)
    BY <1>1, <1>5
  <2> QED
    BY <1>1, <2>1
<1> QED
  BY <1>2, <1>4, <1>5 DEF Table

\* Reading inside a table brings the values of the cells named.
LEMMA FetchInside ==
    ASSUME NEW t \in Tables, NEW table \in Table(t), NEW address \in Nat,
           NEW nb \in Nat, address + nb <= Nb[t]
    PROVE  /\ Fetch(table, address, nb) = [k \in 1 .. nb |-> table[address + k - 1]]
           /\ Fetch(table, address, nb) \in Seq(Nat)
<1>1. ASSUME NEW k \in 1 .. nb
      PROVE  /\ address + k - 1 \in 0 .. Nb[t] - 1
             /\ address + k - 1 \in DOMAIN table
             /\ table[address + k - 1] \in Nat
  BY SizeAssumption DEF Table
<1>2. Fetch(table, address, nb) = [k \in 1 .. nb |-> table[address + k - 1]]
  BY <1>1 DEF Fetch
<1>3. [k \in 1 .. nb |-> table[address + k - 1]] \in Seq(Nat)
  BY <1>1, IsASeq
<1> QED
  BY <1>2, <1>3

-----------------------------------------------------------------------------
\* The handler of each function.
LEMMA ReplyBy ==
    ASSUME NEW tab, NEW r, r.fn \in ClientFunctions
    PROVE  /\ r.fn \in BitReads \cup RegisterReads => modbus_reply(tab, r) = Read(tab, r)
           /\ r.fn = FC_WRITE_SINGLE_COIL => modbus_reply(tab, r) = WriteCoil(tab, r)
           /\ r.fn = FC_WRITE_SINGLE_REGISTER => modbus_reply(tab, r) = WriteRegister(tab, r)
           /\ r.fn \in MultipleWrites => modbus_reply(tab, r) = WriteMultiple(tab, r)
           /\ r.fn = FC_WRITE_AND_READ_REGISTERS => modbus_reply(tab, r) = WriteAndRead(tab, r)
           /\ r.fn = FC_REPORT_SLAVE_ID => modbus_reply(tab, r) = Replied(tab, <<>>)
<1> USE DEF FC_READ_COILS, FC_READ_DISCRETE_INPUTS, FC_READ_HOLDING_REGISTERS,
            FC_READ_INPUT_REGISTERS, FC_WRITE_SINGLE_COIL, FC_WRITE_SINGLE_REGISTER,
            FC_READ_EXCEPTION_STATUS, FC_WRITE_MULTIPLE_COILS,
            FC_WRITE_MULTIPLE_REGISTERS, FC_REPORT_SLAVE_ID,
            FC_WRITE_AND_READ_REGISTERS, BitReads, RegisterReads, SingleWrites,
            MultipleWrites
<1>1. r.fn \in BitReads \cup RegisterReads => modbus_reply(tab, r) = Read(tab, r)
  BY DEF modbus_reply
<1>2. r.fn = FC_WRITE_SINGLE_COIL => modbus_reply(tab, r) = WriteCoil(tab, r)
  BY DEF modbus_reply
<1>3. r.fn = FC_WRITE_SINGLE_REGISTER => modbus_reply(tab, r) = WriteRegister(tab, r)
  BY DEF modbus_reply
<1>4. r.fn \in MultipleWrites => modbus_reply(tab, r) = WriteMultiple(tab, r)
  BY DEF modbus_reply
<1>5. r.fn = FC_WRITE_AND_READ_REGISTERS => modbus_reply(tab, r) = WriteAndRead(tab, r)
  BY DEF modbus_reply
<1>6. r.fn = FC_REPORT_SLAVE_ID => modbus_reply(tab, r) = Replied(tab, <<>>)
  BY DEF modbus_reply
<1> QED
  BY <1>1, <1>2, <1>3, <1>4, <1>5, <1>6

\* A handler that has stored leaves tables of the same size.
LEMMA StoredTables ==
    ASSUME NEW tab, TablesOK(tab), NEW t \in Tables, NEW table \in Table(t)
    PROVE  /\ TablesOK([tab EXCEPT ![t] = table])
           /\ [tab EXCEPT ![t] = table][t] = table
           /\ \A u \in Tables : u # t => [tab EXCEPT ![t] = table][u] = tab[u]
BY DEF TablesOK

\* What each handler does with a request that stays inside the table, and with
\* one that does not.
LEMMA ReadEffect ==
    ASSUME NEW tab, TablesOK(tab), NEW r, WellFormed(r),
           r.fn \in BitReads \cup RegisterReads
    PROVE  LET t == TableOf(r.fn)
           IN  /\ t \in Tables
               /\ modbus_reply(tab, r) =
                    IF r.address + r.nb > Nb[t]
                      THEN response_exception(tab, ILLEGAL_DATA_ADDRESS)
                      ELSE Replied(tab, Fetch(tab[t], r.address, r.nb))
<1>1. TableOf(r.fn) \in Tables
  BY DEF TableOf, Tables
<1>2. modbus_reply(tab, r) = Read(tab, r)
  BY ReplyBy DEF WellFormed
<1> QED
  BY <1>1, <1>2 DEF Read

LEMMA WriteCoilEffect ==
    ASSUME NEW tab, NEW r, WellFormed(r), r.fn = FC_WRITE_SINGLE_COIL
    PROVE  modbus_reply(tab, r) =
             IF r.address >= Nb["bits"]
               THEN response_exception(tab, ILLEGAL_DATA_ADDRESS)
               ELSE Replied([tab EXCEPT !["bits"] =
                       Store(tab["bits"], r.address, <<IF r.nb = 0 THEN 0 ELSE 1>>)], <<>>)
<1>1. modbus_reply(tab, r) = WriteCoil(tab, r)
  BY ReplyBy DEF WellFormed
<1>2. r.nb \in {COIL_ON, 0} /\ r.address \in Nat
  BY DEF WellFormed
<1>3. Nb["bits"] \in Nat
  BY SizeAssumption DEF Tables
<1>4. CASE r.address >= Nb["bits"]
  BY <1>1, <1>2, <1>3, <1>4 DEF WriteCoil
<1>5. CASE ~(r.address >= Nb["bits"])
  <2>1. WriteCoil(tab, r) = Replied([tab EXCEPT !["bits"] =
              Store(@, r.address, <<IF r.nb = 0 THEN 0 ELSE 1>>)], <<>>)
    BY <1>2, <1>3, <1>5 DEF WriteCoil
  <2> QED
    BY <1>1, <1>5, <2>1
<1> QED
  BY <1>4, <1>5

LEMMA WriteRegisterEffect ==
    ASSUME NEW tab, NEW r, WellFormed(r), r.fn = FC_WRITE_SINGLE_REGISTER
    PROVE  modbus_reply(tab, r) =
             IF r.address >= Nb["registers"]
               THEN response_exception(tab, ILLEGAL_DATA_ADDRESS)
               ELSE Replied([tab EXCEPT !["registers"] =
                                Store(tab["registers"], r.address, <<r.nb>>)], <<>>)
<1>1. modbus_reply(tab, r) = WriteRegister(tab, r)
  BY ReplyBy DEF WellFormed
<1> QED
  BY <1>1 DEF WriteRegister

LEMMA WriteMultipleEffect ==
    ASSUME NEW tab, NEW r, WellFormed(r), r.fn \in MultipleWrites
    PROVE  LET t == TableOf(r.fn)
           IN  /\ t \in Tables
               /\ modbus_reply(tab, r) =
                    IF r.address + r.nb > Nb[t]
                      THEN response_exception(tab, ILLEGAL_DATA_ADDRESS)
                      ELSE Replied([tab EXCEPT ![t] =
                                      Store(tab[t], r.address, r.values)], <<>>)
<1>1. TableOf(r.fn) \in Tables
  BY DEF TableOf, Tables
<1>2. modbus_reply(tab, r) = WriteMultiple(tab, r)
  BY ReplyBy DEF WellFormed
<1>3. SubSeq(r.values, 1, r.nb) = r.values
  BY SubSeqFull DEF WellFormed
<1> QED
  BY <1>1, <1>2, <1>3 DEF WriteMultiple

LEMMA WriteAndReadEffect ==
    ASSUME NEW tab, NEW r, WellFormed(r), r.fn = FC_WRITE_AND_READ_REGISTERS
    PROVE  LET written == Store(tab["registers"], r.address_write, r.values)
           IN  modbus_reply(tab, r) =
                 IF \/ r.address + r.nb > Nb["registers"]
                    \/ r.address_write + r.wnb > Nb["registers"]
                   THEN response_exception(tab, ILLEGAL_DATA_ADDRESS)
                   ELSE Replied([tab EXCEPT !["registers"] = written],
                                Fetch(written, r.address, r.nb))
<1>1. modbus_reply(tab, r) = WriteAndRead(tab, r)
  BY ReplyBy DEF WellFormed
<1>2. SubSeq(r.values, 1, r.wnb) = r.values
  BY SubSeqFull DEF WellFormed
<1> QED
  BY <1>1, <1>2 DEF WriteAndRead

LEMMA FunctionKinds ==
    ASSUME NEW fn \in ClientFunctions
    PROVE  \/ fn \in BitReads \cup RegisterReads
           \/ fn = FC_WRITE_SINGLE_COIL
           \/ fn = FC_WRITE_SINGLE_REGISTER
           \/ fn \in MultipleWrites
           \/ fn = FC_WRITE_AND_READ_REGISTERS
           \/ fn = FC_REPORT_SLAVE_ID
BY DEF ClientFunctions, SingleWrites

-----------------------------------------------------------------------------
\* Whatever request of the client API it gets (WellFormed), modbus_reply
\* (modbus.c) stores nothing outside the tables of modbus_mapping_new and
\* answers with values from inside them: the range checks of every function are
\* right for every size of a table.
THEOREM ReplyStaysInside ==
    ASSUME NEW tab, TablesOK(tab), NEW r, WellFormed(r)
    PROVE  /\ TablesOK(modbus_reply(tab, r).mem)
           /\ modbus_reply(tab, r).code \in 0 .. 3
           /\ modbus_reply(tab, r).values \in Seq(Nat)
<1> DEFINE done == modbus_reply(tab, r)
           Inside == /\ TablesOK(done.mem) /\ done.code \in 0 .. 3
                     /\ done.values \in Seq(Nat)
<1>0. SUFFICES Inside
  OBVIOUS
<1>1. ASSUME NEW code \in 1 .. 3, done = response_exception(tab, code) PROVE Inside
  BY <1>1 DEF response_exception
<1>2. ASSUME NEW m, TablesOK(m), NEW values \in Seq(Nat), done = Replied(m, values)
      PROVE  Inside
  BY <1>2 DEF Replied
<1>3. ILLEGAL_DATA_ADDRESS \in 1 .. 3 /\ <<>> \in Seq(Nat)
  BY DEF ILLEGAL_DATA_ADDRESS
<1>4. /\ r.address \in Nat /\ r.nb \in Nat /\ r.values \in Seq(Nat)
      /\ r.address_write \in Nat /\ r.wnb \in Nat
  BY DEF WellFormed
<1>5. \A t \in Tables : tab[t] \in Table(t) /\ Nb[t] \in Nat
  BY SizeAssumption DEF TablesOK
<1>6. "bits" \in Tables /\ "registers" \in Tables
  BY DEF Tables
<1> HIDE DEF done, Inside
<1>7. CASE r.fn \in BitReads \cup RegisterReads
  <2> DEFINE t == TableOf(r.fn)
  <2>1. /\ t \in Tables
        /\ done = IF r.address + r.nb > Nb[t]
                    THEN response_exception(tab, ILLEGAL_DATA_ADDRESS)
                    ELSE Replied(tab, Fetch(tab[t], r.address, r.nb))
    BY <1>7, ReadEffect DEF done
  <2> HIDE DEF t
  <2>2. CASE r.address + r.nb > Nb[t]
    BY <1>1, <1>3, <2>1, <2>2
  <2>3. CASE ~(r.address + r.nb > Nb[t])
    <3>1. Fetch(tab[t], r.address, r.nb) \in Seq(Nat)
      BY <1>4, <1>5, <2>1, <2>3, FetchInside
    <3> QED
      BY <1>2, <2>1, <2>3, <3>1
  <2> QED
    BY <2>2, <2>3
<1>8. CASE r.fn = FC_WRITE_SINGLE_COIL
  <2> DEFINE v == <<IF r.nb = 0 THEN 0 ELSE 1>>
  <2>1. v \in Seq(Nat) /\ Len(v) = 1
    OBVIOUS
  <2>2. done = IF r.address >= Nb["bits"]
                 THEN response_exception(tab, ILLEGAL_DATA_ADDRESS)
                 ELSE Replied([tab EXCEPT !["bits"] = Store(tab["bits"], r.address, v)], <<>>)
    BY <1>8, WriteCoilEffect DEF done
  <2> HIDE DEF v
  <2>3. CASE r.address >= Nb["bits"]
    BY <1>1, <1>3, <2>2, <2>3
  <2>4. CASE ~(r.address >= Nb["bits"])
    <3>0. r.address + Len(v) <= Nb["bits"]
      BY <1>4, <1>5, <1>6, <2>1, <2>4
    <3>1. Store(tab["bits"], r.address, v) \in Table("bits")
      BY <1>4, <1>5, <1>6, <2>1, <3>0, StoreInside
    <3>2. TablesOK([tab EXCEPT !["bits"] = Store(tab["bits"], r.address, v)])
      BY <1>6, <3>1, StoredTables
    <3> QED
      BY <1>2, <1>3, <2>2, <2>4, <3>2
  <2> QED
    BY <2>3, <2>4
<1>9. CASE r.fn = FC_WRITE_SINGLE_REGISTER
  <2>1. <<r.nb>> \in Seq(Nat) /\ Len(<<r.nb>>) = 1
    BY <1>4
  <2>2. CASE r.address >= Nb["registers"]
    BY <1>1, <1>3, <1>9, <2>2, WriteRegisterEffect DEF done
  <2>3. CASE ~(r.address >= Nb["registers"])
    <3>0. r.address + Len(<<r.nb>>) <= Nb["registers"]
      BY <1>4, <1>5, <1>6, <2>1, <2>3
    <3>1. Store(tab["registers"], r.address, <<r.nb>>) \in Table("registers")
      BY <1>4, <1>5, <1>6, <2>1, <3>0, StoreInside
    <3>2. TablesOK([tab EXCEPT !["registers"] = Store(tab["registers"], r.address, <<r.nb>>)])
      BY <1>6, <3>1, StoredTables
    <3> QED
      BY <1>2, <1>3, <1>9, <2>3, <3>2, WriteRegisterEffect DEF done
  <2> QED
    BY <2>2, <2>3
<1>10. CASE r.fn \in MultipleWrites
  <2> DEFINE t == TableOf(r.fn)
  <2>1. /\ t \in Tables
        /\ done = IF r.address + r.nb > Nb[t]
                    THEN response_exception(tab, ILLEGAL_DATA_ADDRESS)
                    ELSE Replied([tab EXCEPT ![t] = Store(tab[t], r.address, r.values)], <<>>)
    BY <1>10, WriteMultipleEffect DEF done
  <2>2. Len(r.values) = r.nb
    BY <1>10 DEF WellFormed
  <2> HIDE DEF t
  <2>3. CASE r.address + r.nb > Nb[t]
    BY <1>1, <1>3, <2>1, <2>3
  <2>4. CASE ~(r.address + r.nb > Nb[t])
    <3>1. Store(tab[t], r.address, r.values) \in Table(t)
      BY <1>4, <1>5, <2>1, <2>2, <2>4, StoreInside
    <3>2. TablesOK([tab EXCEPT ![t] = Store(tab[t], r.address, r.values)])
      BY <2>1, <3>1, StoredTables
    <3> QED
      BY <1>2, <1>3, <2>1, <2>4, <3>2
  <2> QED
    BY <2>3, <2>4
<1>11. CASE r.fn = FC_WRITE_AND_READ_REGISTERS
  <2> DEFINE written == Store(tab["registers"], r.address_write, r.values)
             Refused == \/ r.address + r.nb > Nb["registers"]
                        \/ r.address_write + r.wnb > Nb["registers"]
  <2>1. done = IF Refused THEN response_exception(tab, ILLEGAL_DATA_ADDRESS)
                 ELSE Replied([tab EXCEPT !["registers"] = written],
                              Fetch(written, r.address, r.nb))
    BY <1>11, WriteAndReadEffect DEF done
  <2>2. Len(r.values) = r.wnb
    BY <1>11 DEF WellFormed
  <2>3. CASE Refused
    <3> HIDE DEF Refused
    <3> QED
      BY <1>1, <1>3, <2>1, <2>3
  <2>4. CASE ~Refused
    <3>1. written \in Table("registers")
      BY <1>4, <1>5, <1>6, <2>2, <2>4, StoreInside
    <3> HIDE DEF written
    <3>2. Fetch(written, r.address, r.nb) \in Seq(Nat)
      BY <1>4, <1>5, <1>6, <2>4, <3>1, FetchInside
    <3>3. TablesOK([tab EXCEPT !["registers"] = written])
      BY <1>6, <3>1, StoredTables
    <3> HIDE DEF Refused
    <3> QED
      BY <1>2, <2>1, <2>4, <3>2, <3>3
  <2> QED
    BY <2>3, <2>4
<1>12. CASE r.fn = FC_REPORT_SLAVE_ID
  <2>1. done = Replied(tab, <<>>)
    BY <1>12, ReplyBy DEF WellFormed, done
  <2> QED
    BY <1>2, <1>3, <2>1
<1> QED
  BY <1>7, <1>8, <1>9, <1>10, <1>11, <1>12, FunctionKinds DEF WellFormed

-----------------------------------------------------------------------------
(***************************************************************************)
(* The clients and the server.                                             *)
(***************************************************************************)
Numbers ==
    /\ n \in [Clients -> Nat]
    /\ t_id \in [Clients -> 0 .. TidMod - 1]
    /\ conn \in [Clients -> Nat]
    /\ pc \in [Clients -> {"idle", "recv"}]
    /\ DOMAIN result = Clients
    /\ \A m \in requests :
          /\ m.client \in Clients /\ m.conn \in Nat /\ m.n \in Nat
          /\ m.tid \in 0 .. TidMod - 1
    /\ \A a \in answers :
          a.client \in Clients /\ a.n \in Nat /\ a.tid \in 0 .. TidMod - 1

\* Nothing under way is younger than the last call or the last connection, and
\* a call sends one request.
Past ==
    /\ \A m \in requests : m.n <= n[m.client] /\ m.conn <= conn[m.client]
    /\ \A a \in answers : a.n <= n[a.client]
    /\ \A m, o \in requests : m.client = o.client /\ m.n = o.n => m = o

\* How far the identifiers of a message and of the last request are apart: as
\* far as their numbers, less TidMod when the count has started anew between
\* them.
Apart(c, m) ==
    /\ n[c] < m.n + TidMod
    /\ \/ t_id[c] - m.tid = n[c] - m.n
       \/ t_id[c] - m.tid = n[c] - m.n - TidMod

Window ==
    \A c \in Clients :
        /\ \A m \in requests : m.client = c /\ m.conn = conn[c] => Apart(c, m)
        /\ \A a \in answers : a.client = c => Apart(c, a)

\* The answers a client has not read are to older requests than those the
\* server has not read.
InOrder ==
    \A a \in answers, m \in requests :
        m.client = a.client /\ m.conn = conn[m.client] => a.n < m.n

SInv == Numbers /\ Past /\ Window /\ InOrder /\ SettledOnReturn

-----------------------------------------------------------------------------
LEMMA InitSInv == Init => SInv
<1> SUFFICES ASSUME Init PROVE SInv
  OBVIOUS
<1>1. requests = {} /\ answers = {}
  BY DEF Init
<1>2. Numbers
  BY <1>1, BoundAssumption DEF Init, Numbers
<1>3. Past /\ Window /\ InOrder
  BY <1>1 DEF Past, Window, InOrder
<1>4. SettledOnReturn
  BY <1>1 DEF SettledOnReturn, Unread
<1> QED
  BY <1>2, <1>3, <1>4 DEF SInv

\* Messages and connections that go leave the rest as it was.
LEMMA FewerSInv ==
    ASSUME SInv, requests' \subseteq requests, answers' \subseteq answers,
           UNCHANGED <<n, t_id, conn, pc, result>>
    PROVE  SInv'
<1>1. Numbers'
  BY DEF SInv, Numbers
<1>2. Past'
  BY DEF SInv, Past
<1>3. Window'
  BY DEF SInv, Window, Apart
<1>4. InOrder'
  BY DEF SInv, InOrder
<1>5. SettledOnReturn'
  BY DEF SInv, SettledOnReturn, Unread
<1> QED
  BY <1>1, <1>2, <1>3, <1>4, <1>5 DEF SInv

\* What is under way belongs to connections of the past.
LEMMA ConnectSInv ==
    ASSUME SInv, NEW c \in Clients, Connect(c)
    PROVE  SInv'
<1>1. /\ conn' = [conn EXCEPT ![c] = @ + 1]
      /\ answers' = answers \ AnswersOf(c)
      /\ UNCHANGED <<n, t_id, pc, result, requests>>
  BY DEF Connect
<1>2. \A a \in answers' : a \in answers /\ a.client # c
  BY <1>1 DEF AnswersOf
<1>3. \A m \in requests : m.client = c => m.conn # conn'[c]
  BY <1>1 DEF SInv, Numbers, Past
<1>4. \A e \in Clients : e # c => conn'[e] = conn[e]
  BY <1>1 DEF SInv, Numbers
<1>5. Numbers'
  BY <1>1, <1>2 DEF SInv, Numbers
<1>6. Past'
  <2>1. \A e \in Clients : conn[e] <= conn'[e] /\ conn[e] \in Nat /\ conn'[e] \in Nat
    BY <1>1 DEF SInv, Numbers
  <2> QED
    BY <1>1, <1>2, <2>1 DEF SInv, Numbers, Past
<1>7. Window'
  BY <1>1, <1>2, <1>3, <1>4 DEF SInv, Numbers, Window, Apart
<1>8. InOrder'
  BY <1>1, <1>2, <1>3, <1>4 DEF SInv, Numbers, InOrder
<1>9. SettledOnReturn'
  BY <1>1, <1>3, <1>4 DEF SInv, SettledOnReturn, Unread
<1> QED
  BY <1>5, <1>6, <1>7, <1>8, <1>9 DEF SInv

\* A new request is younger than everything under way, and its identifier the
\* next one.
LEMMA CallSInv ==
    ASSUME SInv, NEW c \in Clients, NEW r \in Requests, Call(c, r)
    PROVE  SInv'
<1>1. /\ n' = [n EXCEPT ![c] = @ + 1]
      /\ t_id' = [t_id EXCEPT ![c] = NextTid(c)]
      /\ pc' = [pc EXCEPT ![c] = "recv"]
      /\ UNCHANGED <<result, conn, answers>>
  BY DEF Call
<1>2. PICK new : /\ requests' = requests \cup {new}
                 /\ new.client = c /\ new.conn = conn[c] /\ new.n = n[c] + 1
                 /\ new.tid = NextTid(c)
  <2> DEFINE sent == [client |-> c, conn |-> conn[c], n |-> n[c] + 1,
                      tid |-> NextTid(c), req |-> r]
  <2>1. /\ sent.client = c /\ sent.conn = conn[c] /\ sent.n = n[c] + 1
        /\ sent.tid = NextTid(c)
    OBVIOUS
  <2>2. requests' = requests \cup {sent}
    BY DEF Call
  <2> HIDE DEF sent
  <2> QED
    BY <2>1, <2>2
<1>3. /\ \A m \in requests : m.client = c /\ m.conn = conn[c] => n[c] + 1 < m.n + TidMod
      /\ \A a \in answers : a.client = c => n[c] + 1 < a.n + TidMod
  BY DEF Call, Unread, AnswersOf
<1>4. /\ n[c] \in Nat /\ n'[c] = n[c] + 1
      /\ t_id[c] \in 0 .. TidMod - 1 /\ t_id'[c] = NextTid(c)
      /\ conn[c] \in Nat /\ TidMod \in Nat \ {0}
      /\ \A e \in Clients : e # c => n'[e] = n[e] /\ t_id'[e] = t_id[e]
  BY <1>1, BoundAssumption DEF SInv, Numbers
<1>5. NextTid(c) \in 0 .. TidMod - 1
  BY <1>4 DEF NextTid
<1>6. ASSUME NEW m, m.n \in Nat, m.tid \in 0 .. TidMod - 1, m.n <= n[c],
             Apart(c, m), n[c] + 1 < m.n + TidMod
      PROVE  Apart(c, m)'
  BY <1>4, <1>6 DEF Apart, NextTid
<1>7. Numbers'
  BY <1>1, <1>2, <1>4, <1>5 DEF SInv, Numbers
<1>8. Past'
  <2>1. \A e \in Clients : n[e] \in Nat /\ n'[e] \in Nat /\ n[e] <= n'[e]
    BY <1>1 DEF SInv, Numbers
  <2>2. \A m \in requests : m.client = c => m.n # new.n
    BY <1>2, <1>4 DEF SInv, Numbers, Past
  <2> QED
    BY <1>1, <1>2, <1>4, <2>1, <2>2 DEF SInv, Numbers, Past
<1>9. Window'
  <2>1. Apart(c, new)'
    BY <1>1, <1>2, <1>4, <1>5 DEF Apart
  <2>2. ASSUME NEW m \in requests, m.conn = conn[m.client] PROVE Apart(m.client, m)'
    <3>1. CASE m.client = c
      BY <1>3, <1>6, <2>2, <3>1 DEF SInv, Numbers, Past, Window
    <3>2. CASE m.client # c
      BY <1>1, <1>4, <2>2, <3>2 DEF SInv, Numbers, Window, Apart
    <3> QED
      BY <3>1, <3>2
  <2>3. ASSUME NEW a \in answers PROVE Apart(a.client, a)'
    <3>1. CASE a.client = c
      BY <1>3, <1>6, <3>1 DEF SInv, Numbers, Past, Window
    <3>2. CASE a.client # c
      BY <1>1, <1>4, <3>2 DEF SInv, Numbers, Window, Apart
    <3> QED
      BY <3>1, <3>2
  <2> QED
    BY <1>1, <1>2, <2>1, <2>2, <2>3 DEF Window
<1>10. InOrder'
  <2>1. \A a \in answers : a.client = c => a.n < new.n
    BY <1>2, <1>4 DEF SInv, Numbers, Past
  <2> QED
    BY <1>1, <1>2, <2>1 DEF SInv, InOrder
<1>11. SettledOnReturn'
  <2>1. ASSUME NEW e \in Clients, e # c, Unread(e) = {} PROVE Unread(e)' = {}
    BY <1>1, <1>2, <2>1 DEF Unread
  <2>2. pc'[c] = "recv" /\ \A e \in Clients : e # c => pc'[e] = pc[e]
    BY <1>1 DEF SInv, Numbers
  <2> QED
    BY <1>1, <2>1, <2>2 DEF SInv, SettledOnReturn
<1> QED
  BY <1>7, <1>8, <1>9, <1>10, <1>11 DEF SInv

\* The answer takes the place of the oldest request of its connection.
LEMMA ServeSInv ==
    ASSUME SInv, NEW m \in requests, Serve(m)
    PROVE  SInv'
<1>1. /\ requests' = requests \ {m}
      /\ UNCHANGED <<pc, n, t_id, result, conn>>
      /\ \A o \in requests : o.client = m.client /\ o.conn = m.conn => m.n <= o.n
  BY DEF Serve
<1>2. \/ answers' = answers
      \/ \E a : /\ answers' = answers \cup {a}
                /\ a.client = m.client /\ a.n = m.n /\ a.tid = m.tid
                /\ m.conn = conn[m.client]
  BY DEF Serve, Carry
<1>3. CASE answers' = answers
  BY <1>1, <1>3, FewerSInv
<1>4. ASSUME NEW a, answers' = answers \cup {a},
             a.client = m.client, a.n = m.n, a.tid = m.tid, m.conn = conn[m.client]
      PROVE  SInv'
  <2>1. Numbers'
    BY <1>1, <1>4 DEF SInv, Numbers
  <2>2. Past'
    BY <1>1, <1>4 DEF SInv, Past
  <2>3. Window'
    <3>1. Apart(m.client, m)
      BY <1>4 DEF SInv, Numbers, Window
    <3> QED
      BY <1>1, <1>4, <3>1 DEF SInv, Numbers, Window, Apart
  <2>4. InOrder'
    <3>1. ASSUME NEW o \in requests', o.client = m.client, o.conn = conn[o.client]
          PROVE  m.n < o.n
      <4>1. o \in requests /\ o # m
        BY <1>1, <3>1
      <4>2. m.n # o.n
        BY <3>1, <4>1 DEF SInv, Past
      <4> QED
        BY <1>1, <1>4, <3>1, <4>1, <4>2 DEF SInv, Numbers
    <3> QED
      BY <1>1, <1>4, <3>1 DEF SInv, InOrder
  <2>5. SettledOnReturn'
    BY <1>1 DEF SInv, SettledOnReturn, Unread
  <2> QED
    BY <2>1, <2>2, <2>3, <2>4, <2>5 DEF SInv
<1> QED
  BY <1>2, <1>3, <1>4

\* An answer with the identifier of the call is the answer to it, and then the
\* server has read every request before.
LEMMA ReceiveSInv ==
    ASSUME SInv, NEW c \in Clients, Receive(c)
    PROVE  SInv'
<1>1. PICK a \in answers :
         /\ a.client = c
         /\ answers' = answers \ {a}
         /\ result' = [result EXCEPT ![c] =
                          IF a.tid = t_id[c] THEN Returned(a) ELSE Failed]
  BY DEF Receive, AnswersOf
<1>2. /\ pc' = [pc EXCEPT ![c] = "idle"]
      /\ UNCHANGED <<n, t_id, conn, requests>>
  BY DEF Receive
<1>3. Numbers'
  BY <1>1, <1>2 DEF SInv, Numbers
<1>4. Past' /\ Window' /\ InOrder'
  BY <1>1, <1>2 DEF SInv, Past, Window, Apart, InOrder
<1>5. ASSUME a.tid = t_id[c] PROVE Unread(c) = {}
  <2>1. a.n = n[c]
    <3>1. Apart(c, a)
      BY <1>1 DEF SInv, Window
    <3> QED
      BY <1>1, <1>5, <3>1, BoundAssumption DEF SInv, Numbers, Past, Apart
  <2>2. SUFFICES ASSUME NEW m \in Unread(c) PROVE FALSE
    OBVIOUS
  <2>3. m \in requests /\ m.client = c /\ m.conn = conn[c]
    BY <2>2 DEF Unread
  <2>4. a.n < m.n
    BY <1>1, <2>3 DEF SInv, InOrder
  <2>5. m.n <= n[c] /\ m.n \in Nat /\ n[c] \in Nat
    BY <2>3 DEF SInv, Past, Numbers
  <2> QED
    BY <2>1, <2>4, <2>5
<1>6. SettledOnReturn'
  <2>1. ASSUME NEW e \in Clients, pc'[e] = "idle", result'[e].outcome = "returned"
        PROVE  Unread(e)' = {}
    <3>1. Unread(e)' = Unread(e)
      BY <1>2 DEF Unread
    <3>2. CASE e # c
      <4>1. pc[e] = "idle" /\ result[e].outcome = "returned"
        BY <1>1, <1>2, <2>1, <3>2 DEF SInv, Numbers
      <4> QED
        BY <3>1, <4>1 DEF SInv, SettledOnReturn
    <3>3. CASE e = c
      <4>1. a.tid = t_id[c]
        BY <1>1, <2>1, <3>3 DEF SInv, Numbers, Failed
      <4> QED
        BY <1>5, <3>1, <3>3, <4>1
    <3> QED
      BY <3>2, <3>3
  <2> QED
    BY <2>1 DEF SettledOnReturn
<1> QED
  BY <1>3, <1>4, <1>6 DEF SInv

LEMMA RecvFailsSInv ==
    ASSUME SInv, NEW c \in Clients, RecvFails(c)
    PROVE  SInv'
<1>1. /\ result' = [result EXCEPT ![c] = Failed]
      /\ pc' = [pc EXCEPT ![c] = "idle"]
      /\ UNCHANGED <<n, t_id, conn, requests, answers>>
  BY DEF RecvFails
<1>2. Numbers'
  BY <1>1 DEF SInv, Numbers
<1>3. Past' /\ Window' /\ InOrder'
  BY <1>1 DEF SInv, Past, Window, Apart, InOrder
<1>4. SettledOnReturn'
  <2>1. result'[c].outcome = "failed"
    BY <1>1 DEF SInv, Numbers, Failed
  <2> QED
    BY <1>1, <2>1 DEF SInv, Numbers, SettledOnReturn, Unread
<1> QED
  BY <1>2, <1>3, <1>4 DEF SInv

-----------------------------------------------------------------------------
\* The inductive invariant, for any number of clients, identifiers, calls and
\* connections.
LEMMA SystemInvariant == Spec => []SInv
<1>1. Init => SInv
  BY InitSInv
<1>2. SInv /\ [Next]_vars => SInv'
  <2> SUFFICES ASSUME SInv, [Next]_vars PROVE SInv'
    OBVIOUS
  <2>1. CASE UNCHANGED vars
    BY <2>1, FewerSInv DEF vars
  <2>2. ASSUME NEW c \in Clients, Connect(c) PROVE SInv'
    BY <2>2, ConnectSInv
  <2>3. ASSUME NEW c \in Clients, \E r \in Requests : Call(c, r) PROVE SInv'
    BY <2>3, CallSInv
  <2>4. ASSUME NEW m \in requests, Serve(m) PROVE SInv'
    BY <2>4, ServeSInv
  <2>5. ASSUME NEW c \in Clients, Receive(c) PROVE SInv'
    BY <2>5, ReceiveSInv
  <2>6. ASSUME NEW c \in Clients, RecvFails(c) PROVE SInv'
    BY <2>6, RecvFailsSInv
  <2>7. ASSUME NEW c \in Clients, Close(c) \/ Flush(c) \/ PeerCloses(c) \/ Forget(c)
        PROVE  SInv'
    <3>1. requests' \subseteq requests /\ answers' \subseteq answers
      BY <2>7 DEF Close, Flush, PeerCloses, Forget
    <3>2. UNCHANGED <<n, t_id, conn, pc, result>>
      BY <2>7 DEF Close, Flush, PeerCloses, Forget
    <3> QED
      BY <3>1, <3>2, FewerSInv
  <2> QED
    BY <2>1, <2>2, <2>3, <2>4, <2>5, <2>6, <2>7 DEF Next
<1> QED
  BY <1>1, <1>2, PTL DEF Spec

\* A call that returns leaves none of the client's earlier requests behind:
\* _modbus_tcp_pre_check_confirmation (modbus-tcp.c) compares identifiers that
\* start anew after UINT16_MAX, and the server reads a connection in order
\* (modbus_receive and modbus_reply, modbus.c).
THEOREM SystemSettlesOnReturn == Spec => []SettledOnReturn
<1>1. SInv => SettledOnReturn
  BY DEF SInv
<1> QED
  BY <1>1, SystemInvariant, PTL

-----------------------------------------------------------------------------
(***************************************************************************)
(* One request: modbus_reply is an operation of ModbusMemory.              *)
(***************************************************************************)
CellsOf(m) == [x \in Cells |-> m[x[1]][x[2]]]

\* Tables and cells with some of them written.
Stored(m, t, address, values) == [m EXCEPT ![t] = Store(m[t], address, values)]
Overwritten(m, W) == [x \in Cells |-> IF x \in DOMAIN W THEN W[x] ELSE CellsOf(m)[x]]

\* The cells a request reads, and their values.
Places(t, address, nb) == [k \in 1 .. nb |-> <<t, address + k - 1>>]
ValuesOf(m, R) == [i \in DOMAIN R |-> CellsOf(m)[R[i]]]

LEMMA RequestsWellFormed == \A r \in Requests : WellFormed(r)
BY RequestAssumption DEF WellFormed

LEMMA CellOf ==
    /\ \A t, i : <<t, i>> \in Cells <=> t \in Tables /\ i \in 0 .. Nb[t] - 1
    /\ \A x \in Cells : x = <<x[1], x[2]>> /\ x[1] \in Tables /\ x[2] \in 0 .. Nb[x[1]] - 1
BY DEF Cells

\* A span of cells lies in a table or reaches across its end.
LEMMA SpanInside ==
    ASSUME NEW t \in Tables, NEW address \in Nat, NEW nb \in Nat, nb >= 1
    PROVE  Span(t, address, nb) \subseteq Cells <=> address + nb <= Nb[t]
<1>1. Nb[t] \in Nat
  BY SizeAssumption
<1>2. ASSUME address + nb <= Nb[t] PROVE Span(t, address, nb) \subseteq Cells
  BY <1>1, <1>2, CellOf DEF Span
<1>3. ASSUME Span(t, address, nb) \subseteq Cells PROVE address + nb <= Nb[t]
  <2>1. <<t, address + nb - 1>> \in Cells
    BY <1>3 DEF Span
  <2>2. address + nb - 1 \in 0 .. Nb[t] - 1
    BY <2>1, CellOf
  <2> QED
    BY <1>1, <2>2
<1> QED
  BY <1>2, <1>3

\* Storing values is writing the cells of a span.
LEMMA StoreIsWrite ==
    ASSUME NEW m, TablesOK(m), NEW t \in Tables, NEW address \in Nat,
           NEW values \in Seq(Nat), address + Len(values) <= Nb[t],
           NEW W, DOMAIN W = Span(t, address, Len(values)),
           \A x \in DOMAIN W : W[x] = values[x[2] - address + 1]
    PROVE  CellsOf(Stored(m, t, address, values)) = Overwritten(m, W)
<1> DEFINE table == Store(m[t], address, values)
           after == [m EXCEPT ![t] = table]
<1>1. m[t] \in Table(t)
  BY DEF TablesOK
<1>2. /\ table \in Table(t)
      /\ \A i \in 0 .. Nb[t] - 1 :
            table[i] = IF i \in address .. address + Len(values) - 1
                         THEN values[i - address + 1] ELSE m[t][i]
  BY <1>1, StoreInside
<1> HIDE DEF table
<1>3. after[t] = table /\ \A u \in Tables : u # t => after[u] = m[u]
  BY <1>2 DEF TablesOK
<1> HIDE DEF after
<1>4. ASSUME NEW x \in Cells
      PROVE  after[x[1]][x[2]] = IF x \in DOMAIN W THEN W[x] ELSE m[x[1]][x[2]]
  <2>1. x = <<x[1], x[2]>> /\ x[1] \in Tables /\ x[2] \in 0 .. Nb[x[1]] - 1
    BY CellOf
  <2>2. x \in DOMAIN W <=> x[1] = t /\ x[2] \in address .. address + Len(values) - 1
    BY <2>1 DEF Span
  <2>3. CASE x[1] = t
    BY <1>2, <1>3, <2>1, <2>2, <2>3
  <2>4. CASE x[1] # t
    BY <1>3, <2>1, <2>2, <2>4
  <2> QED
    BY <2>3, <2>4
<1> QED
  BY <1>4 DEF CellsOf, Stored, Overwritten, after, table

\* Fetching values is reading the cells of a span.
LEMMA ReadInside ==
    ASSUME NEW t \in Tables, NEW address \in Nat, NEW nb \in Nat, nb >= 1
    PROVE  (\A i \in DOMAIN Places(t, address, nb) : Places(t, address, nb)[i] \in Cells)
              <=> address + nb <= Nb[t]
<1> DEFINE R == Places(t, address, nb)
<1>0. DOMAIN R = 1 .. nb /\ \A i \in 1 .. nb : R[i] = <<t, address + i - 1>>
  BY DEF Places
<1> HIDE DEF R
<1>1. Nb[t] \in Nat
  BY SizeAssumption
<1>2. ASSUME address + nb <= Nb[t], NEW i \in 1 .. nb PROVE R[i] \in Cells
  <2>1. address + i - 1 \in 0 .. Nb[t] - 1
    BY <1>1, <1>2
  <2>2. <<t, address + i - 1>> \in Cells
    BY <2>1, CellOf
  <2> QED
    BY <1>0, <2>2
<1>3. ASSUME \A i \in 1 .. nb : R[i] \in Cells PROVE address + nb <= Nb[t]
  <2>0. nb \in 1 .. nb
    OBVIOUS
  <2>1. <<t, address + nb - 1>> \in Cells
    BY <1>0, <1>3, <2>0
  <2>2. address + nb - 1 \in 0 .. Nb[t] - 1
    BY <2>1, CellOf
  <2> QED
    BY <1>1, <2>2
<1> QED
  BY <1>0, <1>2, <1>3 DEF R

LEMMA FetchIsRead ==
    ASSUME NEW m, TablesOK(m), NEW t \in Tables, NEW address \in Nat,
           NEW nb \in Nat, nb >= 1, address + nb <= Nb[t]
    PROVE  Fetch(m[t], address, nb) = ValuesOf(m, Places(t, address, nb))
<1> DEFINE R == Places(t, address, nb)
<1>0. DOMAIN R = 1 .. nb /\ \A i \in 1 .. nb : R[i] = <<t, address + i - 1>>
  BY DEF Places
<1> HIDE DEF R
<1>1. \A i \in 1 .. nb : R[i] \in Cells
  BY <1>0, ReadInside DEF R
<1>2. m[t] \in Table(t)
  BY DEF TablesOK
<1>3. Fetch(m[t], address, nb) = [k \in 1 .. nb |-> m[t][address + k - 1]]
  <2>1. ASSUME NEW table \in Table(t)
        PROVE  Fetch(table, address, nb) = [k \in 1 .. nb |-> table[address + k - 1]]
    BY FetchInside
  <2> QED
    BY <1>2, <2>1
<1>4. ASSUME NEW i \in 1 .. nb PROVE CellsOf(m)[R[i]] = m[t][address + i - 1]
  <2>1. R[i] = <<t, address + i - 1>> /\ R[i] \in Cells
    BY <1>0, <1>1
  <2> QED
    BY <2>1 DEF CellsOf
<1> QED
  BY <1>0, <1>3, <1>4 DEF ValuesOf, R

\* What a request writes and reads, by its function.
LEMMA SingleWriteNames ==
    ASSUME NEW r, r.fn \in SingleWrites
    PROVE  /\ DOMAIN Writes(r) = {<<TableOf(r.fn), r.address>>}
           /\ \A x \in DOMAIN Writes(r) :
                 Writes(r)[x] = IF r.fn = FC_WRITE_SINGLE_COIL /\ r.nb = COIL_ON
                                  THEN 1 ELSE r.nb
           /\ Reads(r) = <<>>
<1>1. Writes(r) = [x \in {<<TableOf(r.fn), r.address>>} |->
                     IF r.fn = FC_WRITE_SINGLE_COIL /\ r.nb = COIL_ON THEN 1 ELSE r.nb]
  <2>1. r.fn \notin MultipleWrites /\ r.fn # FC_WRITE_AND_READ_REGISTERS
    BY DEF SingleWrites, MultipleWrites, FC_WRITE_SINGLE_COIL, FC_WRITE_SINGLE_REGISTER,
       FC_WRITE_MULTIPLE_COILS, FC_WRITE_MULTIPLE_REGISTERS, FC_WRITE_AND_READ_REGISTERS
  <2> QED
    BY <2>1 DEF Writes
<1>2. Reads(r) = <<>>
  BY DEF Reads, SingleWrites, BitReads, RegisterReads, FC_READ_COILS,
         FC_READ_DISCRETE_INPUTS, FC_READ_HOLDING_REGISTERS, FC_READ_INPUT_REGISTERS,
         FC_WRITE_SINGLE_COIL, FC_WRITE_SINGLE_REGISTER, FC_WRITE_AND_READ_REGISTERS
<1> QED
  BY <1>1, <1>2

LEMMA MultipleWriteNames ==
    ASSUME NEW r, r.fn \in MultipleWrites
    PROVE  /\ DOMAIN Writes(r) = Span(TableOf(r.fn), r.address, r.nb)
           /\ \A x \in DOMAIN Writes(r) : Writes(r)[x] = r.values[x[2] - r.address + 1]
           /\ Reads(r) = <<>>
BY DEF Writes, Reads, SingleWrites, MultipleWrites, BitReads, RegisterReads, FC_READ_COILS,
       FC_READ_DISCRETE_INPUTS, FC_READ_HOLDING_REGISTERS, FC_READ_INPUT_REGISTERS,
       FC_WRITE_SINGLE_COIL, FC_WRITE_SINGLE_REGISTER, FC_WRITE_MULTIPLE_COILS,
       FC_WRITE_MULTIPLE_REGISTERS, FC_WRITE_AND_READ_REGISTERS

LEMMA WriteAndReadNames ==
    ASSUME NEW r, r.fn = FC_WRITE_AND_READ_REGISTERS
    PROVE  /\ DOMAIN Writes(r) = Span("registers", r.address_write, r.wnb)
           /\ \A x \in DOMAIN Writes(r) :
                 Writes(r)[x] = r.values[x[2] - r.address_write + 1]
           /\ Reads(r) = Places(TableOf(r.fn), r.address, r.nb)
BY DEF Writes, Reads, Places, SingleWrites, MultipleWrites, FC_WRITE_SINGLE_COIL,
       FC_WRITE_SINGLE_REGISTER, FC_WRITE_MULTIPLE_COILS,
       FC_WRITE_MULTIPLE_REGISTERS, FC_WRITE_AND_READ_REGISTERS

LEMMA ReadNames ==
    ASSUME NEW r, r.fn \in BitReads \cup RegisterReads
    PROVE  /\ DOMAIN Writes(r) = {}
           /\ Reads(r) = Places(TableOf(r.fn), r.address, r.nb)
BY DEF Writes, Reads, Places, SingleWrites, MultipleWrites, BitReads, RegisterReads,
       FC_READ_COILS, FC_READ_DISCRETE_INPUTS, FC_READ_HOLDING_REGISTERS,
       FC_READ_INPUT_REGISTERS, FC_WRITE_SINGLE_COIL, FC_WRITE_SINGLE_REGISTER,
       FC_WRITE_MULTIPLE_COILS, FC_WRITE_MULTIPLE_REGISTERS, FC_WRITE_AND_READ_REGISTERS

LEMMA ReportNames ==
    ASSUME NEW r, r.fn = FC_REPORT_SLAVE_ID
    PROVE  DOMAIN Writes(r) = {} /\ Reads(r) = <<>>
BY DEF Writes, Reads, SingleWrites, MultipleWrites, BitReads, RegisterReads,
       FC_READ_COILS, FC_READ_DISCRETE_INPUTS, FC_READ_HOLDING_REGISTERS,
       FC_READ_INPUT_REGISTERS, FC_WRITE_SINGLE_COIL, FC_WRITE_SINGLE_REGISTER,
       FC_WRITE_MULTIPLE_COILS, FC_WRITE_MULTIPLE_REGISTERS, FC_REPORT_SLAVE_ID,
       FC_WRITE_AND_READ_REGISTERS

LEMMA TableNames ==
    /\ TableOf(FC_WRITE_SINGLE_COIL) = "bits"
    /\ TableOf(FC_WRITE_SINGLE_REGISTER) = "registers"
    /\ TableOf(FC_WRITE_AND_READ_REGISTERS) = "registers"
BY DEF TableOf, FC_READ_COILS, FC_READ_DISCRETE_INPUTS, FC_READ_INPUT_REGISTERS,
       FC_WRITE_SINGLE_COIL, FC_WRITE_SINGLE_REGISTER, FC_WRITE_MULTIPLE_COILS,
       FC_WRITE_AND_READ_REGISTERS

\* The operation `r' carried out: the tables `m' and the values returned.
Carried(r, m, values) ==
    CellsOf(m) = Overwritten(mem, Writes(r)) /\ values = ValuesOf(m, Reads(r))

IsOperation(r, done) ==
    CellsOf(done.mem) = Memory!After(r) /\ Shown(done) = Memory!AnswerTo(r)

LEMMA RefusedOperation ==
    ASSUME NEW r, ~Memory!Legal(r)
    PROVE  IsOperation(r, response_exception(mem, ILLEGAL_DATA_ADDRESS))
<1>1. Memory!After(r) = CellsOf(mem)
  BY DEF CellsOf, Memory!After
<1>2. Memory!AnswerTo(r) = [refused |-> TRUE, values |-> <<>>]
  BY DEF Memory!AnswerTo
<1>3. ILLEGAL_DATA_ADDRESS # 0
  BY DEF ILLEGAL_DATA_ADDRESS
<1> QED
  BY <1>1, <1>2, <1>3 DEF IsOperation, response_exception, Shown

LEMMA CarriedOperation ==
    ASSUME NEW r, Memory!Legal(r), NEW m, NEW values, Carried(r, m, values)
    PROVE  IsOperation(r, Replied(m, values))
<1>1. CellsOf(m) = Memory!After(r)
  BY DEF Carried, CellsOf, Overwritten, Memory!After
<1>2. Memory!AnswerTo(r) = [refused |-> FALSE, values |-> ValuesOf(m, Reads(r))]
  BY <1>1 DEF Memory!AnswerTo, ValuesOf
<1> QED
  BY <1>1, <1>2 DEF IsOperation, Replied, Shown, Carried

\* A request that writes nothing leaves the cells as they are.
LEMMA NothingWritten ==
    ASSUME NEW r, DOMAIN Writes(r) = {}
    PROVE  CellsOf(mem) = Overwritten(mem, Writes(r))
BY DEF CellsOf, Overwritten

LEMMA NothingRead ==
    ASSUME NEW r, Reads(r) = <<>>, NEW m
    PROVE  <<>> = ValuesOf(m, Reads(r))
BY DEF ValuesOf

LEMMA ReadIsOperation ==
    ASSUME TablesOK(mem), NEW r, WellFormed(r), r.fn \in BitReads \cup RegisterReads
    PROVE  IsOperation(r, modbus_reply(mem, r))
<1> DEFINE t == TableOf(r.fn)
<1>1. /\ t \in Tables
      /\ modbus_reply(mem, r) =
           IF r.address + r.nb > Nb[t]
             THEN response_exception(mem, ILLEGAL_DATA_ADDRESS)
             ELSE Replied(mem, Fetch(mem[t], r.address, r.nb))
  BY ReadEffect
<1>2. DOMAIN Writes(r) = {} /\ Reads(r) = Places(t, r.address, r.nb)
  BY ReadNames
<1>3. r.address \in Nat /\ r.nb \in Nat /\ r.nb >= 1 /\ Nb[t] \in Nat
  BY <1>1, SizeAssumption DEF WellFormed, BitReads, RegisterReads, SingleWrites,
     FC_READ_COILS, FC_READ_DISCRETE_INPUTS, FC_READ_HOLDING_REGISTERS,
     FC_READ_INPUT_REGISTERS, FC_WRITE_SINGLE_COIL, FC_WRITE_SINGLE_REGISTER
<1> HIDE DEF t
<1>4. r.address + r.nb <= Nb[t] =>
         Fetch(mem[t], r.address, r.nb) = ValuesOf(mem, Reads(r))
  BY <1>1, <1>2, <1>3, FetchIsRead
<1>5. Memory!Legal(r) <=> r.address + r.nb <= Nb[t]
  BY <1>1, <1>2, <1>3, ReadInside DEF Memory!Legal
<1>6. CASE r.address + r.nb > Nb[t]
  BY <1>1, <1>3, <1>5, <1>6, RefusedOperation
<1>7. CASE ~(r.address + r.nb > Nb[t])
  <2>1. Carried(r, mem, Fetch(mem[t], r.address, r.nb))
    BY <1>2, <1>3, <1>4, <1>7, NothingWritten DEF Carried
  <2> QED
    BY <1>1, <1>3, <1>5, <1>7, <2>1, CarriedOperation
<1> QED
  BY <1>6, <1>7

\* A write of `values' from `address' on, with an answer that holds nothing.
LEMMA WriteIsOperation ==
    ASSUME TablesOK(mem), NEW r, NEW t \in Tables, NEW address \in Nat,
           NEW values \in Seq(Nat), Len(values) >= 1,
           DOMAIN Writes(r) = Span(t, address, Len(values)),
           \A x \in DOMAIN Writes(r) : Writes(r)[x] = values[x[2] - address + 1],
           Reads(r) = <<>>
    PROVE  /\ address + Len(values) > Nb[t] =>
                IsOperation(r, response_exception(mem, ILLEGAL_DATA_ADDRESS))
           /\ address + Len(values) <= Nb[t] =>
                IsOperation(r, Replied(Stored(mem, t, address, values), <<>>))
<1>1. Nb[t] \in Nat /\ Len(values) \in Nat
  BY SizeAssumption
<1>2. Memory!Legal(r) <=> address + Len(values) <= Nb[t]
  <2>1. DOMAIN Reads(r) = {}
    OBVIOUS
  <2> QED
    BY <1>1, <2>1, SpanInside DEF Memory!Legal
<1>3. CASE address + Len(values) > Nb[t]
  BY <1>1, <1>2, <1>3, RefusedOperation
<1>4. CASE ~(address + Len(values) > Nb[t])
  <2> DEFINE m == Stored(mem, t, address, values)
  <2>0. address + Len(values) <= Nb[t]
    BY <1>1, <1>4
  <2>1. ASSUME NEW W, DOMAIN W = Span(t, address, Len(values)),
               \A x \in DOMAIN W : W[x] = values[x[2] - address + 1]
        PROVE  CellsOf(m) = Overwritten(mem, W)
    BY <2>0, <2>1, StoreIsWrite
  <2> HIDE DEF m
  <2>2. Carried(r, m, <<>>)
    BY <2>1, NothingRead DEF Carried
  <2> QED
    BY <1>1, <1>2, <1>4, <2>2, CarriedOperation DEF m
<1> QED
  BY <1>3, <1>4

\* A single write is a write of one value.
LEMMA SingleIsOperation ==
    ASSUME TablesOK(mem), NEW r, NEW t \in Tables, r.address \in Nat, NEW v \in Nat,
           DOMAIN Writes(r) = {<<t, r.address>>},
           \A x \in DOMAIN Writes(r) : Writes(r)[x] = v,
           Reads(r) = <<>>
    PROVE  /\ r.address >= Nb[t] =>
                IsOperation(r, response_exception(mem, ILLEGAL_DATA_ADDRESS))
           /\ ~(r.address >= Nb[t]) =>
                IsOperation(r, Replied(Stored(mem, t, r.address, <<v>>), <<>>))
<1> DEFINE values == <<v>>
<1>1. values \in Seq(Nat) /\ Len(values) = 1 /\ values[1] = v
  OBVIOUS
<1>2. Nb[t] \in Nat
  BY SizeAssumption
<1> HIDE DEF values
<1>3. DOMAIN Writes(r) = Span(t, r.address, Len(values))
  BY <1>1 DEF Span
<1>4. \A x \in DOMAIN Writes(r) : Writes(r)[x] = values[x[2] - r.address + 1]
  BY <1>1
<1>5. /\ r.address + Len(values) > Nb[t] =>
           IsOperation(r, response_exception(mem, ILLEGAL_DATA_ADDRESS))
      /\ r.address + Len(values) <= Nb[t] =>
           IsOperation(r, Replied(Stored(mem, t, r.address, values), <<>>))
  <2>1. Len(values) >= 1
    BY <1>1
  <2> QED
    BY <1>1, <1>3, <1>4, <2>1, WriteIsOperation
<1> QED
  BY <1>1, <1>2, <1>5 DEF values

LEMMA WriteCoilIsOperation ==
    ASSUME TablesOK(mem), NEW r, WellFormed(r), r.fn = FC_WRITE_SINGLE_COIL
    PROVE  IsOperation(r, modbus_reply(mem, r))
<1> DEFINE v == IF r.nb = 0 THEN 0 ELSE 1
<1>1. r.address \in Nat /\ r.nb \in {COIL_ON, 0} /\ COIL_ON # 0
  BY DEF WellFormed, COIL_ON
<1>2. v \in Nat /\ "bits" \in Tables
  BY DEF Tables
<1>3. /\ DOMAIN Writes(r) = {<<"bits", r.address>>}
      /\ \A x \in DOMAIN Writes(r) :
            Writes(r)[x] = IF r.fn = FC_WRITE_SINGLE_COIL /\ r.nb = COIL_ON THEN 1 ELSE r.nb
      /\ Reads(r) = <<>>
  <2> HIDE DEF v
  <2>1. r.fn \in SingleWrites /\ TableOf(r.fn) = "bits"
    BY TableNames DEF SingleWrites
  <2>2. /\ DOMAIN Writes(r) = {<<TableOf(r.fn), r.address>>}
        /\ \A x \in DOMAIN Writes(r) :
              Writes(r)[x] = IF r.fn = FC_WRITE_SINGLE_COIL /\ r.nb = COIL_ON THEN 1 ELSE r.nb
        /\ Reads(r) = <<>>
    BY <2>1, SingleWriteNames
  <2> QED
    BY <2>1, <2>2
<1>4. \A x \in DOMAIN Writes(r) : Writes(r)[x] = v
  <2>1. (IF r.fn = FC_WRITE_SINGLE_COIL /\ r.nb = COIL_ON THEN 1 ELSE r.nb) = v
    BY <1>1
  <2> HIDE DEF v
  <2> QED
    BY <1>3, <2>1
<1>5. modbus_reply(mem, r) =
        IF r.address >= Nb["bits"]
          THEN response_exception(mem, ILLEGAL_DATA_ADDRESS)
          ELSE Replied(Stored(mem, "bits", r.address, <<v>>), <<>>)
  BY WriteCoilEffect DEF Stored
<1> HIDE DEF v
<1>6. /\ r.address >= Nb["bits"] =>
           IsOperation(r, response_exception(mem, ILLEGAL_DATA_ADDRESS))
      /\ ~(r.address >= Nb["bits"]) =>
           IsOperation(r, Replied(Stored(mem, "bits", r.address, <<v>>), <<>>))
  BY <1>1, <1>2, <1>3, <1>4, SingleIsOperation
<1> QED
  BY <1>5, <1>6

LEMMA WriteRegisterIsOperation ==
    ASSUME TablesOK(mem), NEW r, WellFormed(r), r.fn = FC_WRITE_SINGLE_REGISTER
    PROVE  IsOperation(r, modbus_reply(mem, r))
<1>1. r.address \in Nat /\ r.nb \in Nat /\ "registers" \in Tables
  BY DEF WellFormed, Tables
<1>2. r.fn # FC_WRITE_SINGLE_COIL
  BY DEF FC_WRITE_SINGLE_REGISTER, FC_WRITE_SINGLE_COIL
<1>3. /\ DOMAIN Writes(r) = {<<"registers", r.address>>}
      /\ \A x \in DOMAIN Writes(r) : Writes(r)[x] = r.nb
      /\ Reads(r) = <<>>
  <2>1. r.fn \in SingleWrites /\ TableOf(r.fn) = "registers"
    BY TableNames DEF SingleWrites
  <2>2. /\ DOMAIN Writes(r) = {<<TableOf(r.fn), r.address>>}
        /\ \A x \in DOMAIN Writes(r) :
              Writes(r)[x] = IF r.fn = FC_WRITE_SINGLE_COIL /\ r.nb = COIL_ON THEN 1 ELSE r.nb
        /\ Reads(r) = <<>>
    BY <2>1, SingleWriteNames
  <2> QED
    BY <1>2, <2>1, <2>2
<1>4. modbus_reply(mem, r) =
        IF r.address >= Nb["registers"]
          THEN response_exception(mem, ILLEGAL_DATA_ADDRESS)
          ELSE Replied(Stored(mem, "registers", r.address, <<r.nb>>), <<>>)
  BY WriteRegisterEffect DEF Stored
<1>5. /\ r.address >= Nb["registers"] =>
           IsOperation(r, response_exception(mem, ILLEGAL_DATA_ADDRESS))
      /\ ~(r.address >= Nb["registers"]) =>
           IsOperation(r, Replied(Stored(mem, "registers", r.address, <<r.nb>>), <<>>))
  BY <1>1, <1>3, SingleIsOperation
<1> QED
  BY <1>4, <1>5

LEMMA WriteMultipleIsOperation ==
    ASSUME TablesOK(mem), NEW r, WellFormed(r), r.fn \in MultipleWrites
    PROVE  IsOperation(r, modbus_reply(mem, r))
<1> DEFINE t == TableOf(r.fn)
<1>1. /\ r.address \in Nat /\ r.values \in Seq(Nat) /\ Len(r.values) = r.nb
      /\ r.nb \in Nat /\ r.nb >= 1
  BY DEF WellFormed, MultipleWrites, SingleWrites, FC_WRITE_SINGLE_COIL,
     FC_WRITE_SINGLE_REGISTER, FC_WRITE_MULTIPLE_COILS, FC_WRITE_MULTIPLE_REGISTERS
<1>2. /\ t \in Tables
      /\ modbus_reply(mem, r) =
           IF r.address + r.nb > Nb[t]
             THEN response_exception(mem, ILLEGAL_DATA_ADDRESS)
             ELSE Replied(Stored(mem, t, r.address, r.values), <<>>)
  BY WriteMultipleEffect DEF Stored
<1>3. /\ DOMAIN Writes(r) = Span(t, r.address, Len(r.values))
      /\ \A x \in DOMAIN Writes(r) : Writes(r)[x] = r.values[x[2] - r.address + 1]
      /\ Reads(r) = <<>>
  BY <1>1, MultipleWriteNames
<1> HIDE DEF t
<1>4. Nb[t] \in Nat
  BY <1>2, SizeAssumption
<1>5. /\ r.address + r.nb > Nb[t] =>
           IsOperation(r, response_exception(mem, ILLEGAL_DATA_ADDRESS))
      /\ r.address + r.nb <= Nb[t] =>
           IsOperation(r, Replied(Stored(mem, t, r.address, r.values), <<>>))
  BY <1>1, <1>2, <1>3, WriteIsOperation
<1> QED
  BY <1>1, <1>2, <1>4, <1>5

\* The combined request writes first and then reads.
LEMMA WriteAndReadIsOperation ==
    ASSUME TablesOK(mem), NEW r, WellFormed(r), r.fn = FC_WRITE_AND_READ_REGISTERS
    PROVE  IsOperation(r, modbus_reply(mem, r))
<1> DEFINE written == Store(mem["registers"], r.address_write, r.values)
           m == Stored(mem, "registers", r.address_write, r.values)
           Refused == \/ r.address + r.nb > Nb["registers"]
                      \/ r.address_write + r.wnb > Nb["registers"]
<1>1. /\ r.address \in Nat /\ r.address_write \in Nat /\ r.nb \in Nat /\ r.nb >= 1
      /\ r.values \in Seq(Nat) /\ Len(r.values) = r.wnb /\ r.wnb >= 1 /\ r.wnb \in Nat
  BY DEF WellFormed, SingleWrites, FC_WRITE_SINGLE_COIL, FC_WRITE_SINGLE_REGISTER,
     FC_WRITE_AND_READ_REGISTERS
<1>2. "registers" \in Tables /\ Nb["registers"] \in Nat
  BY SizeAssumption DEF Tables
<1>3. modbus_reply(mem, r) =
        IF Refused THEN response_exception(mem, ILLEGAL_DATA_ADDRESS)
        ELSE Replied(m, Fetch(written, r.address, r.nb))
  BY WriteAndReadEffect DEF Stored
<1>4. /\ DOMAIN Writes(r) = Span("registers", r.address_write, Len(r.values))
      /\ \A x \in DOMAIN Writes(r) : Writes(r)[x] = r.values[x[2] - r.address_write + 1]
      /\ Reads(r) = Places("registers", r.address, r.nb)
  BY <1>1, WriteAndReadNames, TableNames
<1>5. Memory!Legal(r) <=> ~Refused
  <2>1. DOMAIN Writes(r) \subseteq Cells <=> r.address_write + r.wnb <= Nb["registers"]
    BY <1>1, <1>2, <1>4, SpanInside
  <2>2. (\A i \in DOMAIN Reads(r) : Reads(r)[i] \in Cells)
           <=> r.address + r.nb <= Nb["registers"]
    BY <1>1, <1>2, <1>4, ReadInside
  <2> QED
    BY <1>1, <1>2, <2>1, <2>2 DEF Memory!Legal
<1>6. CASE Refused
  <2> HIDE DEF Refused
  <2> QED
    BY <1>3, <1>5, <1>6, RefusedOperation
<1>7. CASE ~Refused
  <2>1. /\ r.address + r.nb <= Nb["registers"]
        /\ r.address_write + Len(r.values) <= Nb["registers"]
    BY <1>1, <1>2, <1>7
  <2> HIDE DEF Refused
  <2>2. mem["registers"] \in Table("registers")
    BY <1>2 DEF TablesOK
  <2>3. written \in Table("registers")
    BY <1>1, <1>2, <2>1, <2>2, StoreInside
  <2>4. TablesOK(m) /\ m["registers"] = written
    <3> HIDE DEF written
    <3>1. m = [mem EXCEPT !["registers"] = written]
      BY DEF Stored, written
    <3> QED
      BY <1>2, <2>3, <3>1 DEF TablesOK
  <2> HIDE DEF written, m
  <2>5. CellsOf(m) = Overwritten(mem, Writes(r))
    <3>1. ASSUME NEW t \in Tables, NEW address \in Nat, NEW values \in Seq(Nat),
                 address + Len(values) <= Nb[t],
                 DOMAIN Writes(r) = Span(t, address, Len(values)),
                 \A x \in DOMAIN Writes(r) : Writes(r)[x] = values[x[2] - address + 1]
          PROVE  CellsOf(Stored(mem, t, address, values)) = Overwritten(mem, Writes(r))
      BY <3>1, StoreIsWrite
    <3>2. CellsOf(Stored(mem, "registers", r.address_write, r.values))
            = Overwritten(mem, Writes(r))
      BY <1>1, <1>2, <1>4, <2>1, <3>1
    <3> QED
      BY <3>2 DEF m
  <2>6. Fetch(m["registers"], r.address, r.nb) = ValuesOf(m, Reads(r))
    BY <1>1, <1>2, <1>4, <2>1, <2>4, FetchIsRead
  <2>7. Carried(r, m, Fetch(written, r.address, r.nb))
    BY <2>4, <2>5, <2>6 DEF Carried
  <2> QED
    BY <1>3, <1>5, <1>7, <2>7, CarriedOperation
<1> QED
  BY <1>6, <1>7

LEMMA ReportIsOperation ==
    ASSUME TablesOK(mem), NEW r, WellFormed(r), r.fn = FC_REPORT_SLAVE_ID
    PROVE  IsOperation(r, modbus_reply(mem, r))
<1>1. modbus_reply(mem, r) = Replied(mem, <<>>)
  BY ReplyBy DEF WellFormed
<1>2. DOMAIN Writes(r) = {} /\ Reads(r) = <<>>
  BY ReportNames
<1>3. Memory!Legal(r)
  <2>1. DOMAIN Reads(r) = {}
    BY <1>2
  <2> QED
    BY <1>2, <2>1 DEF Memory!Legal
<1>4. Carried(r, mem, <<>>)
  BY <1>2, NothingWritten, NothingRead DEF Carried
<1> QED
  BY <1>1, <1>3, <1>4, CarriedOperation

\* Whatever the sizes of the tables, modbus_reply carries a request out as
\* ModbusMemory says, or refuses it exactly when it names a cell there is
\* none of.
THEOREM ReplyIsOperation ==
    ASSUME TablesOK(mem), NEW r \in Requests
    PROVE  IsOperation(r, modbus_reply(mem, r))
<1>1. WellFormed(r) /\ r.fn \in ClientFunctions
  BY RequestsWellFormed DEF WellFormed
<1> QED
  BY <1>1, FunctionKinds, ReadIsOperation, WriteCoilIsOperation, WriteRegisterIsOperation,
     WriteMultipleIsOperation, WriteAndReadIsOperation, ReportIsOperation

-----------------------------------------------------------------------------
(***************************************************************************)
(* Steps of the clients and the server are steps of ModbusMemory.          *)
(***************************************************************************)
\* A current call has one request or one answer, or both are lost.
CallInv ==
    /\ DOMAIN served = Clients /\ DOMAIN req = Clients
    /\ \A m \in requests : m.req \in Requests
    /\ \A c \in Clients : pc[c] = "recv" =>
          /\ served[c] = {} \/ \E a : served[c] = {a}
          /\ \A m \in requests : m.client = c /\ m.n = n[c] =>
                m.req = req[c] /\ served[c] = {}
          /\ \A a \in answers : a.client = c /\ a.n = n[c] => served[c] = {a}

MInv == SInv /\ CallInv /\ TablesOK(mem)

\* The state of ModbusMemory, by name.
CallAt(c) ==
    IF pc[c] = "idle" THEN [state |-> "idle"]
    ELSE IF served[c] = {} THEN [state |-> "open", op |-> req[c]]
    ELSE [state |-> "done", op |-> req[c],
          answer |-> Shown(CHOOSE a \in served[c] : TRUE)]

MCall == [c \in Clients |-> CallAt(c)]

Stray(m) == [client |-> m.client, n |-> m.n, op |-> m.req]

MStray == {Stray(m) : m \in {m \in requests : ~CurrentRequest(m)}}

LEMMA StrayMembers ==
    \A x : x \in MStray <=> \E m \in requests : ~CurrentRequest(m) /\ x = Stray(m)
BY DEF MStray

\* The steps of ModbusMemory on this state.
LEMMA NothingHappens ==
    ASSUME UNCHANGED <<CellsOf(mem), n, MCall, result>>, MStray' \subseteq MStray
    PROVE  Memory!Next
BY DEF CellsOf, MCall, CallAt, MStray, Stray, Memory!Next, Memory!StrayLost

LEMMA CallBegins ==
    ASSUME NEW c \in Clients, NEW r \in Requests, MCall[c] = Memory!Idle,
           n' = [n EXCEPT ![c] = @ + 1],
           MCall' = [MCall EXCEPT ![c] = Memory!Open(r)],
           UNCHANGED <<CellsOf(mem), result, MStray>>
    PROVE  Memory!Next
<1>1. Memory!Begin(c, r)
  BY DEF CellsOf, MCall, CallAt, MStray, Stray, Memory!Begin
<1> QED
  BY <1>1 DEF Memory!Next

LEMMA CallTakesEffect ==
    ASSUME NEW c \in Clients, MCall[c].state = "open",
           CellsOf(mem)' = Memory!After(MCall[c].op),
           MCall' = [MCall EXCEPT ![c] =
                        Memory!Done(MCall[c].op, Memory!AnswerTo(MCall[c].op))],
           UNCHANGED <<n, result, MStray>>
    PROVE  Memory!Next
<1>1. Memory!Effect(c)
  BY DEF CellsOf, MCall, CallAt, MStray, Stray, Memory!Effect
<1> QED
  BY <1>1 DEF Memory!Next

LEMMA CallReturns ==
    ASSUME NEW c \in Clients, MCall[c].state = "done",
           result' = [result EXCEPT ![c] = Memory!Returned(MCall[c].answer)],
           MCall' = [MCall EXCEPT ![c] = Memory!Idle],
           UNCHANGED <<CellsOf(mem), n, MStray>>
    PROVE  Memory!Next
<1>1. Memory!Return(c)
  BY DEF CellsOf, MCall, CallAt, MStray, Stray, Memory!Return
<1> QED
  BY <1>1 DEF Memory!Next

LEMMA CallFails ==
    ASSUME NEW c \in Clients, MCall[c] # Memory!Idle,
           result' = [result EXCEPT ![c] = Memory!Failed],
           MCall' = [MCall EXCEPT ![c] = Memory!Idle],
           \/ UNCHANGED MStray
           \/ /\ MCall[c].state = "open"
              /\ MStray' = MStray \cup {[client |-> c, n |-> n[c], op |-> MCall[c].op]},
           UNCHANGED <<CellsOf(mem), n>>
    PROVE  Memory!Next
<1>1. Memory!Fail(c)
  BY DEF CellsOf, MCall, CallAt, MStray, Stray, Memory!Fail
<1> QED
  BY <1>1 DEF Memory!Next

LEMMA StrayTakesEffect ==
    ASSUME NEW s \in MStray, CellsOf(mem)' = Memory!After(s.op),
           MStray' = MStray \ {s}, UNCHANGED <<n, MCall, result>>
    PROVE  Memory!Next
<1>1. s \in {[client |-> m.client, n |-> m.n, op |-> m.req] :
                m \in {m \in requests : ~CurrentRequest(m)}}
  BY DEF MStray, Stray
<1>2. Memory!StrayEffect(s)
  BY DEF CellsOf, MCall, CallAt, MStray, Stray, Memory!StrayEffect
<1> QED
  BY <1>1, <1>2 DEF Memory!Next

\* One call changes its state.
LEMMA CallChange ==
    ASSUME NEW c \in Clients, NEW X, CallAt(c)' = X,
           \A e \in Clients : e # c => CallAt(e)' = CallAt(e)
    PROVE  MCall' = [MCall EXCEPT ![c] = X]
BY DEF MCall

-----------------------------------------------------------------------------
LEMMA InitMInv == Init => MInv /\ Memory!Init
<1> SUFFICES ASSUME Init PROVE MInv /\ Memory!Init
  OBVIOUS
<1>1. SInv
  BY InitSInv
<1>2. CallInv
  BY DEF Init, CallInv
<1>3. TablesOK(mem)
  <2>1. \A t \in Tables : mem[t] = [i \in 0 .. Nb[t] - 1 |-> 0]
    BY DEF Init, modbus_mapping_new
  <2>2. mem = [t \in Tables |-> mem[t]]
    BY DEF Init, modbus_mapping_new
  <2> QED
    BY <2>1, <2>2 DEF TablesOK, Table
<1>4. [x \in Cells |-> mem[x[1]][x[2]]] = [x \in Cells |-> 0]
  BY CellOf DEF Init, modbus_mapping_new
<1>5. Memory!Init
  BY <1>4 DEF Init, Memory!Init, Memory!Idle, Memory!Failed, Failed
<1> QED
  BY <1>1, <1>2, <1>3, <1>5 DEF MInv

\* Connections that are opened, closed, flushed or lost: requests that have
\* not been read may be lost with them.
LEMMA LostStep ==
    ASSUME MInv, SInv', requests' \subseteq requests, answers' \subseteq answers,
           UNCHANGED <<mem, pc, n, req, result, served>>
    PROVE  MInv' /\ Memory!Next
<1>1. CallInv'
  BY DEF MInv, CallInv
<1>2. TablesOK(mem)'
  BY DEF MInv, TablesOK, Table
<1>3. MStray' \subseteq MStray
  BY StrayMembers DEF MStray, Stray, CurrentRequest
<1>4. UNCHANGED <<CellsOf(mem), n, MCall, result>>
  BY DEF CellsOf, MCall, CallAt
<1> QED
  BY <1>1, <1>2, <1>3, <1>4, NothingHappens DEF MInv

LEMMA CallStep ==
    ASSUME MInv, SInv', NEW c \in Clients, NEW r \in Requests, Call(c, r)
    PROVE  MInv' /\ Memory!Next
<1>1. /\ pc[c] = "idle"
      /\ n' = [n EXCEPT ![c] = @ + 1]
      /\ req' = [req EXCEPT ![c] = r]
      /\ pc' = [pc EXCEPT ![c] = "recv"]
      /\ served' = [served EXCEPT ![c] = {}]
      /\ UNCHANGED <<mem, result, answers>>
  BY DEF Call
<1>2. PICK new : /\ requests' = requests \cup {new}
                 /\ new.client = c /\ new.n = n[c] + 1 /\ new.req = r
  <2> DEFINE sent == [client |-> c, conn |-> conn[c], n |-> n[c] + 1,
                      tid |-> NextTid(c), req |-> r]
  <2>1. sent.client = c /\ sent.n = n[c] + 1 /\ sent.req = r
    OBVIOUS
  <2>2. requests' = requests \cup {sent}
    BY DEF Call
  <2> HIDE DEF sent
  <2> QED
    BY <2>1, <2>2
<1>3. /\ pc'[c] = "recv" /\ n'[c] = n[c] + 1 /\ n[c] \in Nat
      /\ req'[c] = r /\ served'[c] = {}
      /\ \A e \in Clients : e # c =>
            pc'[e] = pc[e] /\ n'[e] = n[e] /\ req'[e] = req[e] /\ served'[e] = served[e]
      /\ DOMAIN served' = Clients /\ DOMAIN req' = Clients
  BY <1>1 DEF MInv, SInv, Numbers, CallInv
<1>4. /\ \A m \in requests : m.client \in Clients /\ m.n \in Nat /\ m.n <= n[m.client]
      /\ \A a \in answers : a.client \in Clients /\ a.n \in Nat /\ a.n <= n[a.client]
  BY DEF MInv, SInv, Numbers, Past
<1>5. CallInv'
  <2>1. \A m \in requests' : m.req \in Requests
    BY <1>2 DEF MInv, CallInv
  <2>2. ASSUME NEW e \in Clients, pc'[e] = "recv"
        PROVE  /\ served'[e] = {} \/ \E a : served'[e] = {a}
               /\ \A m \in requests' : m.client = e /\ m.n = n'[e] =>
                     m.req = req'[e] /\ served'[e] = {}
               /\ \A a \in answers' : a.client = e /\ a.n = n'[e] => served'[e] = {a}
    <3>1. CASE e = c
      <4>1. ASSUME NEW m \in requests', m.client = c, m.n = n'[c] PROVE m.req = r
        BY <1>2, <1>3, <1>4, <4>1
      <4>2. ASSUME NEW a \in answers', a.client = c, a.n = n'[c] PROVE FALSE
        BY <1>1, <1>3, <1>4, <4>2
      <4> QED
        BY <1>3, <3>1, <4>1, <4>2
    <3>2. CASE e # c
      <4>1. pc[e] = "recv" /\ n'[e] = n[e] /\ req'[e] = req[e] /\ served'[e] = served[e]
        BY <1>3, <2>2, <3>2
      <4>2. /\ served[e] = {} \/ \E a : served[e] = {a}
            /\ \A m \in requests : m.client = e /\ m.n = n[e] =>
                  m.req = req[e] /\ served[e] = {}
            /\ \A a \in answers : a.client = e /\ a.n = n[e] => served[e] = {a}
        BY <4>1 DEF MInv, CallInv
      <4>3. \A m \in requests' : m.client = e => m \in requests
        BY <1>2, <3>2
      <4> QED
        BY <1>1, <4>1, <4>2, <4>3
    <3> QED
      BY <3>1, <3>2
  <2> QED
    BY <1>3, <2>1, <2>2 DEF CallInv
<1>6. TablesOK(mem)'
  BY <1>1 DEF MInv, TablesOK, Table
<1>7. MStray' = MStray
  <2>1. CurrentRequest(new)'
    BY <1>2, <1>3 DEF CurrentRequest
  <2>2. \A m \in requests : CurrentRequest(m)' <=> CurrentRequest(m)
    BY <1>1, <1>3, <1>4 DEF CurrentRequest
  <2> QED
    BY <1>2, <2>1, <2>2 DEF MStray, Stray
<1>8. MCall' = [MCall EXCEPT ![c] = Memory!Open(r)]
  <2>1. CallAt(c)' = Memory!Open(r)
    BY <1>3 DEF CallAt, Memory!Open
  <2>2. \A e \in Clients : e # c => CallAt(e)' = CallAt(e)
    BY <1>3 DEF CallAt
  <2> QED
    BY <2>1, <2>2, CallChange
<1>9. MCall[c] = Memory!Idle
  BY <1>1 DEF MCall, CallAt, Memory!Idle
<1>10. UNCHANGED <<CellsOf(mem), result, MStray>>
  BY <1>1, <1>7 DEF CellsOf
<1> QED
  BY <1>1, <1>5, <1>6, <1>8, <1>9, <1>10, CallBegins DEF MInv

LEMMA ServeStep ==
    ASSUME MInv, SInv', NEW m \in requests, Serve(m)
    PROVE  MInv' /\ Memory!Next
<1> DEFINE c == m.client
           done == modbus_reply(mem, m.req)
<1>1. /\ requests' = requests \ {m}
      /\ UNCHANGED <<pc, n, req, result>>
      /\ mem' = done.mem
  BY DEF Serve, Carry
<1>2. PICK a :
         /\ a.client = c /\ a.n = m.n /\ Shown(a) = Shown(done)
         /\ answers' = answers \/ answers' = answers \cup {a}
         /\ served' = IF CurrentRequest(m) THEN [served EXCEPT ![c] = {a}] ELSE served
  <2> DEFINE answer == [client |-> c, n |-> m.n, tid |-> m.tid,
                        code |-> done.code, values |-> done.values]
  <2>1. answer.client = c /\ answer.n = m.n /\ Shown(answer) = Shown(done)
    BY DEF Shown
  <2>2. /\ answers' = answers \/ answers' = answers \cup {answer}
        /\ served' = IF CurrentRequest(m) THEN [served EXCEPT ![c] = {answer}] ELSE served
    BY DEF Serve, Carry
  <2> HIDE DEF answer
  <2> QED
    BY <2>1, <2>2
<1>3. c \in Clients /\ m.n \in Nat /\ n[c] \in Nat /\ m.req \in Requests
  BY DEF MInv, SInv, Numbers, CallInv
<1>4. TablesOK(mem) /\ WellFormed(m.req)
  BY <1>3, RequestsWellFormed DEF MInv
<1>5. IsOperation(m.req, done)
  BY <1>3, <1>4, ReplyIsOperation
<1>6. TablesOK(mem')
  BY <1>1, <1>4, ReplyStaysInside
<1>7. TablesOK(mem)'
  BY <1>6 DEF TablesOK, Table
<1>8. CellsOf(mem)' = Memory!After(m.req)
  <2>1. CellsOf(mem)' = CellsOf(done.mem)
    BY <1>1 DEF CellsOf
  <2> QED
    BY <1>5, <2>1 DEF IsOperation
<1>9. \A o \in requests : o.client = c /\ o.n = m.n => o = m
  BY DEF MInv, SInv, Past
<1>10. \A o \in requests : CurrentRequest(o)' <=> CurrentRequest(o)
  BY <1>1 DEF CurrentRequest
<1> HIDE DEF c, done
<1>11. CASE CurrentRequest(m)
  <2>1. /\ pc[c] = "recv" /\ m.n = n[c] /\ m.req = req[c] /\ served[c] = {}
        /\ \A e \in Clients : e # c => served'[e] = served[e]
        /\ served'[c] = {a} /\ DOMAIN served' = Clients /\ DOMAIN req = Clients
    BY <1>2, <1>3, <1>11 DEF CurrentRequest, MInv, CallInv, c
  <2>2. CallInv'
    <3>1. \A o \in requests' : o.req \in Requests
      BY <1>1 DEF MInv, CallInv
    <3>2. ASSUME NEW e \in Clients, pc'[e] = "recv"
          PROVE  /\ served'[e] = {} \/ \E b : served'[e] = {b}
                 /\ \A o \in requests' : o.client = e /\ o.n = n'[e] =>
                       o.req = req'[e] /\ served'[e] = {}
                 /\ \A b \in answers' : b.client = e /\ b.n = n'[e] => served'[e] = {b}
      <4>1. CASE e = c
        <5>1. ASSUME NEW o \in requests', o.client = c, o.n = n[c] PROVE FALSE
          BY <1>1, <1>9, <2>1, <5>1
        <5>2. ASSUME NEW b \in answers, b.client = c, b.n = n[c] PROVE FALSE
          <6>1. served[c] = {b}
            BY <1>3, <2>1, <5>2 DEF MInv, CallInv
          <6> QED
            BY <2>1, <6>1
        <5> QED
          BY <1>1, <1>2, <2>1, <4>1, <5>1, <5>2
      <4>2. CASE e # c
        BY <1>1, <1>2, <2>1, <3>2, <4>2 DEF MInv, CallInv
      <4> QED
        BY <4>1, <4>2
    <3> QED
      BY <1>1, <2>1, <3>1, <3>2 DEF CallInv
  <2>3. MCall[c] = Memory!Open(m.req)
    BY <1>3, <2>1 DEF MCall, CallAt, Memory!Open
  <2>4. MCall' = [MCall EXCEPT ![c] = Memory!Done(m.req, Memory!AnswerTo(m.req))]
    <3>1. (CHOOSE b \in served'[c] : TRUE) = a
      BY <2>1
    <3>2. CallAt(c)' = Memory!Done(m.req, Shown(a))
      BY <1>1, <2>1, <3>1 DEF CallAt, Memory!Done, Shown
    <3>3. \A e \in Clients : e # c => CallAt(e)' = CallAt(e)
      BY <1>1, <2>1 DEF CallAt
    <3>4. Shown(a) = Memory!AnswerTo(m.req)
      BY <1>2, <1>5 DEF IsOperation
    <3> QED
      BY <1>3, <3>2, <3>3, <3>4, CallChange
  <2>5. MStray' = MStray
    BY <1>1, <1>10, <1>11 DEF MStray, Stray
  <2>6. MCall[c].state = "open" /\ MCall[c].op = m.req
    BY <2>3 DEF Memory!Open
  <2>7. Memory!Next
    BY <1>1, <1>3, <1>8, <2>4, <2>5, <2>6, CallTakesEffect
  <2> QED
    BY <1>7, <2>2, <2>7 DEF MInv
<1>12. CASE ~CurrentRequest(m)
  <2>1. served' = served
    BY <1>2, <1>12
  <2>2. pc[c] = "recv" => m.n # n[c]
    BY <1>12 DEF CurrentRequest, c
  <2>3. CallInv'
    BY <1>1, <1>2, <2>1, <2>2 DEF MInv, CallInv
  <2>4. MCall' = MCall
    BY <1>1, <2>1 DEF MCall, CallAt
  <2>5. Stray(m) \in MStray
    BY <1>12, StrayMembers
  <2>6. MStray' = MStray \ {Stray(m)}
    <3>1. \A o \in requests : Stray(o) = Stray(m) => o = m
      BY <1>9 DEF Stray, c
    <3>2. \A x : x \in MStray' <=> \E o \in requests' : ~CurrentRequest(o)' /\ x = Stray(o)
      BY DEF MStray, Stray
    <3> QED
      BY <1>1, <1>10, <3>1, <3>2, StrayMembers
  <2>7. Stray(m).op = m.req
    BY DEF Stray
  <2>8. Memory!Next
    BY <1>1, <1>8, <2>4, <2>5, <2>6, <2>7, StrayTakesEffect
  <2> QED
    BY <1>7, <2>3, <2>8 DEF MInv
<1> QED
  BY <1>11, <1>12

\* A call ends: if the server has not read its request, that is a stray now.
LEMMA EndOfCall ==
    ASSUME MInv, NEW c \in Clients, pc[c] = "recv",
           pc' = [pc EXCEPT ![c] = "idle"], answers' \subseteq answers,
           UNCHANGED <<mem, n, req, requests, served>>
    PROVE  /\ CallInv' /\ TablesOK(mem)'
           /\ UNCHANGED <<CellsOf(mem), n>>
           /\ MCall' = [MCall EXCEPT ![c] = Memory!Idle]
           /\ \/ MStray' = MStray
              \/ /\ MCall[c].state = "open" /\ served[c] = {}
                 /\ MStray' = MStray \cup {[client |-> c, n |-> n[c], op |-> MCall[c].op]}
<1>1. /\ pc'[c] = "idle" /\ \A e \in Clients : e # c => pc'[e] = pc[e]
      /\ \A m \in requests : m.client \in Clients
  BY DEF MInv, SInv, Numbers
<1>2. CallInv'
  BY <1>1 DEF MInv, CallInv
<1>3. TablesOK(mem)' /\ UNCHANGED <<CellsOf(mem), n>>
  BY DEF MInv, TablesOK, Table, CellsOf
<1>4. MCall' = [MCall EXCEPT ![c] = Memory!Idle]
  <2>1. CallAt(c)' = Memory!Idle
    BY <1>1 DEF CallAt, Memory!Idle
  <2>2. \A e \in Clients : e # c => CallAt(e)' = CallAt(e)
    BY <1>1 DEF CallAt
  <2> QED
    BY <2>1, <2>2, CallChange
<1>5. \A x : x \in MStray' <=> \E o \in requests : ~CurrentRequest(o)' /\ x = Stray(o)
  BY DEF MStray, Stray
<1>6. \A o \in requests :
         ~CurrentRequest(o)' <=> ~CurrentRequest(o) \/ (o.client = c /\ o.n = n[c])
  BY <1>1 DEF CurrentRequest
<1>7. CASE \E m \in requests : m.client = c /\ m.n = n[c]
  <2>1. PICK m \in requests : m.client = c /\ m.n = n[c]
    BY <1>7
  <2>2. m.req = req[c] /\ served[c] = {}
    BY <2>1 DEF MInv, CallInv
  <2>3. MCall[c] = Memory!Open(m.req)
    BY <2>2 DEF MCall, CallAt, Memory!Open
  <2>4. \A o \in requests : o.client = c /\ o.n = n[c] => o = m
    BY <2>1 DEF MInv, SInv, Past
  <2>5. Stray(m) = [client |-> c, n |-> n[c], op |-> MCall[c].op]
    BY <2>1, <2>3 DEF Stray, Memory!Open
  <2>6. MStray' = MStray \cup {Stray(m)}
    BY <1>5, <1>6, <2>1, <2>4, StrayMembers
  <2> QED
    BY <1>2, <1>3, <1>4, <2>2, <2>3, <2>5, <2>6 DEF Memory!Open
<1>8. CASE ~\E m \in requests : m.client = c /\ m.n = n[c]
  <2>1. MStray' = MStray
    BY <1>5, <1>6, <1>8, StrayMembers
  <2> QED
    BY <1>2, <1>3, <1>4, <2>1
<1> QED
  BY <1>7, <1>8

LEMMA ReceiveStep ==
    ASSUME MInv, SInv', NEW c \in Clients, Receive(c)
    PROVE  MInv' /\ Memory!Next
<1>1. PICK a \in answers :
         /\ a.client = c
         /\ answers' = answers \ {a}
         /\ result' = [result EXCEPT ![c] =
                          IF a.tid = t_id[c] THEN Returned(a) ELSE Failed]
  BY DEF Receive, AnswersOf
<1>2. /\ pc[c] = "recv" /\ pc' = [pc EXCEPT ![c] = "idle"]
      /\ UNCHANGED <<mem, n, req, requests, served>>
  BY DEF Receive
<1>3. /\ CallInv' /\ TablesOK(mem)'
      /\ UNCHANGED <<CellsOf(mem), n>>
      /\ MCall' = [MCall EXCEPT ![c] = Memory!Idle]
      /\ \/ MStray' = MStray
         \/ /\ MCall[c].state = "open" /\ served[c] = {}
            /\ MStray' = MStray \cup {[client |-> c, n |-> n[c], op |-> MCall[c].op]}
  BY <1>1, <1>2, EndOfCall
<1>4. CASE a.tid = t_id[c]
  <2>1. a.n = n[c]
    <3>1. Apart(c, a)
      BY <1>1 DEF MInv, SInv, Window
    <3> QED
      BY <1>1, <1>4, <3>1, BoundAssumption DEF MInv, SInv, Numbers, Past, Apart
  <2>2. served[c] = {a}
    BY <1>1, <1>2, <2>1 DEF MInv, CallInv
  <2>3. (CHOOSE b \in served[c] : TRUE) = a
    BY <2>2
  <2>4. MCall[c] = [state |-> "done", op |-> req[c], answer |-> Shown(a)]
    BY <1>2, <2>2, <2>3 DEF MCall, CallAt
  <2>5. MStray' = MStray
    BY <1>3, <2>2
  <2>6. result' = [result EXCEPT ![c] = Memory!Returned(MCall[c].answer)]
    BY <1>1, <1>4, <2>4 DEF Returned, Memory!Returned
  <2>7. MCall[c].state = "done"
    BY <2>4
  <2>8. Memory!Next
    BY <1>3, <2>5, <2>6, <2>7, CallReturns
  <2> QED
    BY <1>3, <2>8 DEF MInv
<1>5. CASE a.tid # t_id[c]
  <2>1. result' = [result EXCEPT ![c] = Memory!Failed]
    BY <1>1, <1>5 DEF Failed, Memory!Failed
  <2>2. MCall[c] # Memory!Idle
    BY <1>2 DEF MCall, CallAt, Memory!Idle
  <2>3. Memory!Next
    BY <1>3, <2>1, <2>2, CallFails
  <2> QED
    BY <1>3, <2>3 DEF MInv
<1> QED
  BY <1>4, <1>5

LEMMA RecvFailsStep ==
    ASSUME MInv, SInv', NEW c \in Clients, RecvFails(c)
    PROVE  MInv' /\ Memory!Next
<1>1. /\ pc[c] = "recv" /\ pc' = [pc EXCEPT ![c] = "idle"]
      /\ result' = [result EXCEPT ![c] = Failed]
      /\ UNCHANGED <<mem, n, req, requests, answers, served>>
  BY DEF RecvFails
<1>2. /\ CallInv' /\ TablesOK(mem)'
      /\ UNCHANGED <<CellsOf(mem), n>>
      /\ MCall' = [MCall EXCEPT ![c] = Memory!Idle]
      /\ \/ MStray' = MStray
         \/ /\ MCall[c].state = "open" /\ served[c] = {}
            /\ MStray' = MStray \cup {[client |-> c, n |-> n[c], op |-> MCall[c].op]}
  BY <1>1, EndOfCall
<1>3. result' = [result EXCEPT ![c] = Memory!Failed]
  BY <1>1 DEF Failed, Memory!Failed
<1>4. MCall[c] # Memory!Idle
  BY <1>1 DEF MCall, CallAt, Memory!Idle
<1>5. Memory!Next
  BY <1>2, <1>3, <1>4, CallFails
<1> QED
  BY <1>2, <1>5 DEF MInv

-----------------------------------------------------------------------------
\* Any number of clients and a server with tables of any size implement
\* ModbusMemory: each call reads and writes its cells in one step, between its
\* beginning and its return, and brings what it has read; a call that fails
\* does so at most once, then or later (the calls of modbus.c over TCP,
\* _modbus_tcp_pre_check_confirmation, modbus_reply).
THEOREM SystemImplementsMemory == Spec => ImplementsMemory
<1>1. Init => MInv /\ Memory!Init
  BY InitMInv
<1>2. MInv /\ SInv' /\ [Next]_vars => MInv' /\ [Memory!Next]_(Memory!vars)
  <2> SUFFICES ASSUME MInv, SInv', [Next]_vars
               PROVE  MInv' /\ (Memory!Next \/ UNCHANGED Memory!vars)
    OBVIOUS
  <2>1. CASE UNCHANGED vars
    <3>1. MInv'
      BY <2>1, LostStep DEF vars
    <3>2. UNCHANGED Memory!vars
      BY <2>1 DEF vars, Memory!vars, CurrentRequest
    <3> QED
      BY <3>1, <3>2
  <2>2. ASSUME NEW c \in Clients,
               Connect(c) \/ Close(c) \/ Flush(c) \/ PeerCloses(c) \/ Forget(c)
        PROVE  MInv' /\ Memory!Next
    <3>1. requests' \subseteq requests /\ answers' \subseteq answers
      BY <2>2 DEF Connect, Close, Flush, PeerCloses, Forget
    <3>2. UNCHANGED <<mem, pc, n, req, result, served>>
      BY <2>2 DEF Connect, Close, Flush, PeerCloses, Forget
    <3> QED
      BY <3>1, <3>2, LostStep
  <2>3. ASSUME NEW c \in Clients, NEW r \in Requests, Call(c, r)
        PROVE  MInv' /\ Memory!Next
    BY <2>3, CallStep
  <2>4. ASSUME NEW m \in requests, Serve(m) PROVE MInv' /\ Memory!Next
    BY <2>4, ServeStep
  <2>5. ASSUME NEW c \in Clients, Receive(c) PROVE MInv' /\ Memory!Next
    BY <2>5, ReceiveStep
  <2>6. ASSUME NEW c \in Clients, RecvFails(c) PROVE MInv' /\ Memory!Next
    BY <2>6, RecvFailsStep
  <2> QED
    BY <2>1, <2>2, <2>3, <2>4, <2>5, <2>6 DEF Next
<1> QED
  BY <1>1, <1>2, SystemInvariant, PTL DEF Spec, ImplementsMemory, Memory!Spec

-----------------------------------------------------------------------------
(***************************************************************************)
(* The type invariant.                                                     *)
(***************************************************************************)
TypeInv ==
    /\ TypeOK
    /\ TablesOK(mem)
    /\ DOMAIN served = Clients
    /\ \A c \in Clients : up[c] => conn[c] \in 1 .. MaxConn

LEMMA InitTypeInv == Requests # {} /\ Init => TypeInv
<1> SUFFICES ASSUME Requests # {}, Init PROVE TypeInv
  OBVIOUS
<1>1. TablesOK(mem)
  BY InitMInv DEF MInv
<1>2. (CHOOSE r \in Requests : TRUE) \in Requests
  OBVIOUS
<1>3. TypeOK
  BY <1>1, <1>2, BoundAssumption DEF Init, TypeOK, TablesOK, Table
<1> QED
  BY <1>1, <1>3 DEF Init, TypeInv

\* The steps in which no call begins and no request is served.
LEMMA QuietTypeInv ==
    ASSUME TypeInv, NEW c \in Clients,
           \/ Connect(c) \/ Close(c) \/ Receive(c) \/ RecvFails(c) \/ Flush(c)
           \/ PeerCloses(c) \/ Forget(c)
    PROVE  TypeInv'
<1>1. UNCHANGED <<mem, n, t_id, req, served>>
  BY DEF Connect, Close, Receive, RecvFails, Flush, PeerCloses, Forget
<1>2. requests' \subseteq requests /\ answers' \subseteq answers
  BY DEF Connect, Close, Receive, RecvFails, Flush, PeerCloses, Forget
<1>3. pc' = pc \/ pc' = [pc EXCEPT ![c] = "idle"]
  BY DEF Connect, Close, Receive, RecvFails, Flush, PeerCloses, Forget
<1>4. \/ conn' = conn /\ (up' = up \/ up' = [up EXCEPT ![c] = FALSE])
      \/ /\ conn[c] < MaxConn
         /\ conn' = [conn EXCEPT ![c] = @ + 1] /\ up' = [up EXCEPT ![c] = TRUE]
  BY DEF Connect, Close, Receive, RecvFails, Flush, PeerCloses, Forget
<1>5. conn' \in [Clients -> 0 .. MaxConn] /\ up' \in [Clients -> BOOLEAN]
  <2>1. conn \in [Clients -> 0 .. MaxConn] /\ up \in [Clients -> BOOLEAN]
    BY DEF TypeInv, TypeOK
  <2>2. conn' = conn \/ (conn[c] < MaxConn /\ conn' = [conn EXCEPT ![c] = @ + 1])
    BY <1>4
  <2>3. up' = up \/ up' = [up EXCEPT ![c] = FALSE] \/ up' = [up EXCEPT ![c] = TRUE]
    BY <1>4
  <2>4. conn' \in [Clients -> 0 .. MaxConn]
    BY <2>1, <2>2, BoundAssumption
  <2>5. up' \in [Clients -> BOOLEAN]
    BY <2>1, <2>3
  <2> QED
    BY <2>4, <2>5
<1>6. ASSUME NEW e \in Clients, up'[e] PROVE conn'[e] \in 1 .. MaxConn
  <2>1. conn \in [Clients -> 0 .. MaxConn] /\ up \in [Clients -> BOOLEAN]
    BY DEF TypeInv, TypeOK
  <2>2. conn'[e] = conn[e] \/ (conn[c] < MaxConn /\ e = c /\ conn'[e] = conn[c] + 1)
    BY <1>4, <2>1
  <2>3. conn'[e] = conn[e] => up[e] \/ (conn[c] < MaxConn /\ e = c /\ conn'[e] = conn[c] + 1)
    <3>1. CASE conn' = conn /\ (up' = up \/ up' = [up EXCEPT ![c] = FALSE])
      BY <1>6, <2>1, <3>1
    <3>2. CASE /\ conn[c] < MaxConn
               /\ conn' = [conn EXCEPT ![c] = @ + 1] /\ up' = [up EXCEPT ![c] = TRUE]
      <4>1. CASE e = c
        BY <2>1, <3>2, <4>1
      <4>2. CASE e # c
        BY <1>6, <2>1, <3>2, <4>2
      <4> QED
        BY <4>1, <4>2
    <3> QED
      BY <1>4, <3>1, <3>2
  <2>4. up[e] => conn[e] \in 1 .. MaxConn
    BY DEF TypeInv
  <2> QED
    BY <2>1, <2>2, <2>3, <2>4, BoundAssumption
<1>7. pc' \in [Clients -> {"idle", "recv"}]
  BY <1>3 DEF TypeInv, TypeOK
<1>8. TypeOK'
  BY <1>1, <1>2, <1>5, <1>7 DEF TypeInv, TypeOK
<1>9. TablesOK(mem)'
  BY <1>1 DEF TypeInv, TablesOK, Table
<1> QED
  BY <1>1, <1>6, <1>8, <1>9 DEF TypeInv

LEMMA CallTypeInv ==
    ASSUME TypeInv, NEW c \in Clients, NEW r \in Requests, Call(c, r)
    PROVE  TypeInv'
<1> DEFINE new == [client |-> c, conn |-> conn[c], n |-> n[c] + 1,
                   tid |-> NextTid(c), req |-> r]
<1>1. /\ n' = [n EXCEPT ![c] = @ + 1]
      /\ t_id' = [t_id EXCEPT ![c] = NextTid(c)]
      /\ req' = [req EXCEPT ![c] = r]
      /\ pc' = [pc EXCEPT ![c] = "recv"]
      /\ requests' = requests \cup {new}
      /\ served' = [served EXCEPT ![c] = {}]
      /\ UNCHANGED <<mem, up, conn, answers>>
  BY DEF Call
<1>2. /\ n[c] \in Nat /\ n[c] + 1 \in 1 .. MaxCalls
      /\ conn[c] \in 1 .. MaxConn
      /\ NextTid(c) \in 0 .. TidMod - 1
  BY BoundAssumption DEF Call, NextTid, TypeInv, TypeOK
<1>3. new \in Message
  BY <1>2 DEF Message
<1> HIDE DEF new
<1>4. requests' \subseteq Message
  BY <1>1, <1>3 DEF TypeInv, TypeOK
<1>5. /\ n' \in [Clients -> 0 .. MaxCalls]
      /\ t_id' \in [Clients -> 0 .. TidMod - 1]
      /\ req' \in [Clients -> Requests]
      /\ pc' \in [Clients -> {"idle", "recv"}]
  BY <1>1, <1>2, BoundAssumption DEF TypeInv, TypeOK
<1>6. DOMAIN served' = Clients /\ \A e \in Clients : served'[e] \subseteq Answer
  BY <1>1 DEF TypeInv, TypeOK
<1>7. TypeOK'
  BY <1>1, <1>4, <1>5, <1>6 DEF TypeInv, TypeOK
<1>8. TablesOK(mem)'
  BY <1>1 DEF TypeInv, TablesOK, Table
<1> QED
  BY <1>1, <1>6, <1>7, <1>8 DEF TypeInv

LEMMA ServeTypeInv ==
    ASSUME TypeInv, NEW m \in requests, Serve(m)
    PROVE  TypeInv'
<1> DEFINE c == m.client
           done == modbus_reply(mem, m.req)
           answer == [client |-> c, n |-> m.n, tid |-> m.tid,
                      code |-> done.code, values |-> done.values]
<1>1. /\ mem' = done.mem
      /\ answers' = answers \/ answers' = answers \cup {answer}
      /\ served' = served \/ served' = [served EXCEPT ![c] = {answer}]
      /\ requests' = requests \ {m}
      /\ UNCHANGED <<pc, n, t_id, req, up, conn>>
  BY DEF Serve, Carry
<1>2. m \in Message
  BY DEF TypeInv, TypeOK
<1>3. /\ c \in Clients /\ m.n \in 1 .. MaxCalls /\ m.tid \in 0 .. TidMod - 1
      /\ m.req \in Requests
  BY <1>2 DEF Message
<1>4. TablesOK(done.mem) /\ done.code \in 0 .. 3 /\ done.values \in Seq(Nat)
  BY <1>3, RequestsWellFormed, ReplyStaysInside DEF TypeInv
<1> HIDE DEF done
<1>5. answer \in Answer
  BY <1>3, <1>4 DEF Answer
<1> HIDE DEF answer, c
<1>6. TablesOK(mem')
  BY <1>1, <1>4
<1>7. answers' \subseteq Answer
  BY <1>1, <1>5 DEF TypeInv, TypeOK
<1>8. DOMAIN served' = Clients /\ \A e \in Clients : served'[e] \subseteq Answer
  <2>1. DOMAIN served = Clients /\ \A e \in Clients : served[e] \subseteq Answer
    BY DEF TypeInv, TypeOK
  <2>2. \A e \in Clients : served'[e] = served[e] \/ served'[e] = {answer}
    BY <1>1, <2>1
  <2>3. DOMAIN served' = Clients
    BY <1>1, <2>1
  <2> QED
    BY <1>5, <2>1, <2>2, <2>3
<1>9. /\ DOMAIN mem' = Tables
      /\ \A t \in Tables : mem'[t] \in [0 .. Nb[t] - 1 -> Nat]
  BY <1>6 DEF TablesOK, Table
<1>10. TypeOK'
  BY <1>1, <1>7, <1>8, <1>9 DEF TypeInv, TypeOK
<1>11. TablesOK(mem)'
  BY <1>6 DEF TablesOK, Table
<1> QED
  BY <1>1, <1>8, <1>10, <1>11 DEF TypeInv

\* However the clients' calls interleave, no table grows or shrinks and no
\* answer holds a value from behind the end of one (modbus_reply, modbus.c).
THEOREM SystemTypeCorrect ==
    ASSUME Requests # {}
    PROVE  Spec => []TypeOK
<1>1. Init => TypeInv
  BY InitTypeInv
<1>2. TypeInv /\ [Next]_vars => TypeInv'
  <2> SUFFICES ASSUME TypeInv, [Next]_vars PROVE TypeInv'
    OBVIOUS
  <2>1. CASE UNCHANGED vars
    BY <2>1 DEF vars, TypeInv, TypeOK, TablesOK, Table
  <2>2. ASSUME NEW c \in Clients,
               \/ Connect(c) \/ Close(c) \/ Receive(c) \/ RecvFails(c) \/ Flush(c)
               \/ PeerCloses(c) \/ Forget(c)
        PROVE  TypeInv'
    BY <2>2, QuietTypeInv
  <2>3. ASSUME NEW c \in Clients, NEW r \in Requests, Call(c, r) PROVE TypeInv'
    BY <2>3, CallTypeInv
  <2>4. ASSUME NEW m \in requests, Serve(m) PROVE TypeInv'
    BY <2>4, ServeTypeInv
  <2> QED
    BY <2>1, <2>2, <2>3, <2>4 DEF Next
<1>3. TypeInv => TypeOK
  BY DEF TypeInv
<1> QED
  BY <1>1, <1>2, <1>3, PTL DEF Spec
=============================================================================
