# A TLA+ model of SwiftLibModbus

SwiftLibModbus is a Swift actor, `ModbusDevice`, around a vendored libmodbus
(C). This directory holds TLA+ modules of its protocol, connection and data
logic, client and server, TLC configurations that check them on small instances, and proofs checked by
TLAPS. `PROJECT.json` maps every definition to the lines it models and lists
components, runs, mutants, findings, hazards and theorems.

## The system

| Part | State | Operations | What makes it hard |
|---|---|---|---|
| Length algebra (`modbus.c`) | none | lengths of requests, replies, exceptions; how many bytes the receiver wants next | client, server and receive loop compute the same length in three different ways |
| Receive loop `_modbus_receive_msg` | step, bytes stored, bytes wanted, timeout | one loop per message | bytes arrive in pieces; the length is learnt on the way; a peer that stops, closes or sends something else |
| Client calls (`modbus.c`) | request, answer, `t_id`, `errno` | read/write bits and registers, write-and-read, report slave id | answers that come after their call gave up |
| Error recovery (`send_msg`, `_modbus_receive_msg`, `check_confirmation`, `_sleep_and_flush`) | `ctx->s` | reconnect, sleep and flush, repeat the send | loops until the server is back; must not repeat a request; must find back into step |
| TCP backend | socket, transaction identifier | connect, send, recv, select, flush, close | a closed socket's number stays in `ctx->s` |
| RTU backend | port, slave | open, write, read, flush, close, CRC | nothing on the wire tells a late answer from a timely one |
| `ModbusDevice` connections | `connected`, two timer tasks | init, `connect`, `disconnect`, connect-when-needed, timers | timers that end while an operation runs; several devices in one process |
| `ModbusDevice` data | none | typed reads and writes, ASCII, byte order | word counts of types narrower and wider than a register, two nested byte swaps |
| Server (`modbus_reply`, mapping) | four tables | one reply per request | address ranges, function by function; what a failed call of a client did |
| RTU server on a shared line | `confirmation_to_ignore` | `modbus_receive` | nothing tells a request from the answer of another slave |
| Contexts, listen, accept | descriptors, memory, `ctx->s` | new, connect, listen, accept, close, free | one of several system calls fails |
| Bits and floats (`modbus-data.c`), CRC | none | packing, checksum | loops written four times, two tables of 256 numbers |

The actor serialises the jobs of one device. A job calls libmodbus, which
blocks; libmodbus calls the backend, the backend calls the kernel. Timer tasks
sleep outside the actor and enqueue `disconnect()` when they wake. Different
devices share nothing but the descriptor table of the process - and that is
enough for them to interfere.

## Modules

* **`ModbusPdu`** - function codes, limits and the length computations, one
  operator per C function, for both backends (a record with the lengths of
  `modbus_backend_t`). A message is its function code and its quantities; no
  bytes are built.
* **`ModbusReceive`** - one call of `_modbus_receive_msg`. `frame` is what the
  peer sends, reduced to what the loop looks at: the function code, the byte
  at the position of the byte count, and the length. A frame is one a peer
  builds (request, reply, exception), or *noise*: any function code, any count,
  any length. `Receive(n)` is one turn of the `while` loop (select, recv, the
  switch on the step, the change to the byte timeout); `Timeout` and
  `PeerCloses` are its error exits.
* **`ModbusClient`** - one `modbus_t` used by a sequence of calls, its
  connection, and a server that answers any request it holds whenever it likes,
  loses requests, and closes. `pc` is the place in the call: `send` (the loop of
  `send_msg`), `recv` (`_modbus_receive_msg` and `check_confirmation`), `sleep`
  (`_sleep_and_flush`). Every request and answer carries its *age*, the number of
  calls begun since its own; the age is a history variable the code cannot see
  and the property `OwnAnswer` is about. `sock` distinguishes `open`, `closed`,
  `reset` (the peer closed, the next send still succeeds), `broken` (and the one
  after fails) and `skewed` (a request went out in part, the server's view of the
  stream is off). RTU and TCP, and the recovery modes, are constants.
* **`ModbusDevice`** - any number of `ModbusDevice` actors over one descriptor
  table. It keeps of libmodbus what it does to `ctx->s`: `socket()`/`open()`,
  the close on a failed connect, the recovery's close and connect. `task` is a
  timer task that is referred to by the actor (`sleeping`, or `woken`: its sleep
  is over and `disconnect()` is queued), `stale` counts woken tasks that were
  cancelled too late to matter.
* **`ModbusCall`** - an abstract specification of the calls of one context, without
  frames, identifiers, timeouts and recovery: a call hands its request over at most
  once and returns the answer to it, or fails. `Promise == INSTANCE ModbusCall WITH
  ...` in `ModbusClient` is the refinement mapping; a call is open from `send_msg` to
  its return. Only TCP keeps this promise: on RTU a late answer to an earlier, equal
  request may be returned.
* **`ModbusStream`** - the bytes one TCP client reads over several register
  reads: the receive loop, `check_confirmation` and the flush on one stream, with
  answers that arrive in pieces, late, or in part before a call gives up and in
  part after it. It has what `ModbusClient` leaves out (frames are whole there) and
  leaves out what `ModbusClient` has (sending fails, connections close). `own`,
  `clean` are history variables; `calm` is the moment from which the server is in
  time.
* **`ModbusServer`** - `modbus_reply` for every function over the four tables, as an
  operator from tables and request to tables, exception code and values.
* **`ModbusMemory`** - an abstract specification, without messages: cells that
  every call reads and writes in one step between its beginning and its return; a
  call that failed may still take effect once (a *stray*).
* **`ModbusSystem`** - clients on TCP, messages under way, connections that break,
  and `ModbusServer`. `Memory == INSTANCE ModbusMemory WITH ...` is the refinement
  mapping: the cells are the entries of the tables, a call is *done* once the server
  has carried out its request, the requests of failed calls are the strays. Of a
  client it keeps what `ModbusClient` shows to be its control: one send, then the
  first answer of the connection, accepted by its identifier.
* **`ModbusRtuBus`** - a master and slaves on a line where all hear each other. A
  slave repeats `modbus_receive` and `modbus_reply`. `Taken` against `Length` is how
  many bytes the receive loop takes of a frame read as the wrong kind; a slave for
  which they differ is `skewed` until the line is silent.
* **`ModbusEndpoint`** - who owns which descriptor and which memory, over contexts of
  both kinds, connect, listen, accept, close, free and mappings, with every system
  call failing. `Reconnects` and `ChecksSocket` are how the program uses the library:
  which contexts it connects again after a close, and whether it looks at its listening
  socket before it accepts, which the library leaves to it.
* **`ModbusData`**, **`ModbusBits`**, **`ModbusCrc`** - the contents of messages:
  typed values, strings and floats in registers; bits in bytes; the checksum of a
  frame that may be damaged.
* **`MC...`** - the instances for TLC. `MCConversions` runs the three modules about
  contents, which share nothing, one at a time.
* **`ModbusReceiveProofs`** (with `ModbusPdu`), **`ModbusClientProofs`,
  `ModbusStreamProofs`, `ModbusDeviceProofs`, `ModbusSystemProofs`** (with
  `ModbusServer`), **`ModbusRtuBusProofs`, `ModbusEndpointProofs`,
  `ModbusDataProofs`** (with `ModbusBits` and `ModbusCrc`) - the theorems.

Definitions named `X_Something` under a comment "Mutant" are deliberate
mistakes, used by no specification; substituting one for `X` must break the
property `PROJECT.json` names, which shows that the property depends on `X`.

## Runs

| Run | Instance | Shows |
|---|---|---|
| `receive_loop` | every client function with quantities 0, 1, 8, 9 and the limit, both backends and message types, 48 kinds of noise, pieces of 1 to 250 bytes | `InBuffer`, `ExactFrame`, `LengthAsComputed`, `Returns` |
| `client_tcp` | link and protocol recovery (what `ModbusDevice` sets for TCP), 3 identifiers, answers up to 2 calls late | `OwnAnswer`, `ImplementsCall`, `CallReturns`, `Resynchronises` |
| `client_rtu` | RTU, no recovery (what `ModbusDevice` leaves for RTU), two slaves, three register reads and two bit reads of equal length | `AnswerFits`, `CallReturns` |
| `stream` | both recoveries, 4 identifiers, reads of 2 registers, answers (exceptions too, until the server is calm) cut after 2 and 4 bytes | `AnswerTaken`, `OwnBytes`, `Realigns` |
| `device_tcp` | one TCP device, both timers, user connects and disconnects | `NoLeak`, `TimersFollowConnection`, `AgesOut` |
| `device_idle` | one TCP device, idle timer only | `IdleCloses` |
| `device_rtu_pair` | two RTU devices | `OwnSocket` |
| `device_tcp_pair` | two TCP devices | `OwnSocket` is violated |
| `system` | one client, every function, 18 requests inside, up to and across the ends of the tables, 3 calls; and two clients on one register, 2 calls each; 2 connections each | `SettledOnReturn`, `ImplementsMemory` |
| `rtu_bus` | two slaves, register reads, late answers, frames not heard | `OnlyRequests`, `NoneSwallowed`, `Heals` |
| `endpoint` | two contexts, five descriptors, up to two addresses, a mapping; a program that reconnects `modbus_new_tcp` contexts only and accepts only on a socket above 0 | `NothingLost`, `ConnectTruthful`, `OthersStay` |
| `conversions` | types of 1, 2 and 4 bytes, up to 3 values, 7 registers, strings of 2; 10 bits, up to 9 per call; all messages of a byte, some of two, the shortest requests with 1 to 3 damaged bits | `NetworkOrder`, `RoundTrip`, `StringBack`; `Stored`, `ReadBack`, `PackAlike`; `ChecksumOfModbus`, `OnlyIntact` |

Every module with state has a `TypeOK` one of its runs checks, except those about
contents, whose properties say more.

`receive_loop`, `system` and `conversions` turn deadlock checking off: a behaviour
is one call, a bounded number of calls, or one message, and then ends. In all other
runs a state without a successor would be an error.

### Bounds

* `TidMod = 3`, `MaxLag = 2` of the client (65536 and "fewer than that" in reality): the
  identifier wraps within every run, and with `MaxLag < TidMod` two requests under
  way never carry the same one. `MaxLag = TidMod` would let a 65536 calls old
  answer be taken for a new one; that is the limit of the protocol.
* Three requests on TCP (a read, a write, a read above the limit): TCP matches
  by identifier alone, more kinds add nothing. Five on RTU, chosen so that pairs
  differ in the slave, in the address, in the function with equal length, and in
  the quantity with equal length, and in nothing else.
* `MaxFd = 1` or 2 (two or three descriptors), `MaxStale` 1 or 2: at least one
  descriptor more than there are devices, so that a leaked one does not stop the run;
  a second stale task behaves as the first.
* `Pieces` of `receive_loop` has sizes below, at and above each part of a frame. In
  `stream` the pieces 2 and 4 cut the header, the part behind it and the data; the
  registers include ones that look like a read with a byte count above any limit.
* `MaxPending = 1`, `MaxBytes = 13` in `stream`: one unanswered request and one
  whole answer of 13 bytes left over when a call begins, the most a flush can miss.
  `TidMod = 4`: the identifiers wrap, and what is under way never brings one back
  while it counts (`Recent`, the hypothesis of `StreamOwnBytes`, holds in all states).
* `system`: `TidMod = 2` is the fewest identifiers that can tell two calls apart;
  `Call` keeps fewer than `TidMod` of one connection under way. Two connections: one
  on which calls fail, one on which the client goes on. `MCSystem.Few` keeps the two
  questions apart (every function, or two clients), which have nothing to do with
  each other.
* `rtu_bus`: a register read has both mistakes, a request too long for an answer and
  an answer too short for a request. Two frames per port.
* `endpoint`: descriptors for a listener, two contexts and the rest of the program,
  and standard input.
* `conversions`: odd and even numbers of bytes, at every address; bits at and across
  a byte boundary. The bytes of a value are distinct, which is all a conversion that
  only moves bytes can tell. Messages of one byte meet every entry of both tables; a
  CRC is linear, so that what is found when bits are damaged in one message is
  found in any other of that length.

### Fairness

* `ModbusReceive`: only the clock. Nothing makes the peer send.
* `ModbusClient.FairSpec`: the calling thread runs, and a server that is *calm*
  (reachable and in time, from a moment the environment chooses) answers. `CallReturns`
  needs no more than the first half without recovery.
* `ModbusClient.LiveSpec`, only for the run with link recovery, where `send_msg`
  repeats "until to be successful": a reconnect that is tried for ever succeeds some
  day, and so does a send. Without this assumption the call does not return, which is
  what the code does on purpose.
* `ModbusDevice.FairSpec`: jobs run on, the actor serves its queue in order, the
  auto-reconnect timer ends since only `connect()` starts it anew, the idle timer ends
  if the device stays idle, and connecting and sending succeed now and then.
* `ModbusStream.FairSpec`, `ModbusRtuBus.FairSpec`: the program runs, timeouts
  expire, what was sent arrives, and the user or the master goes on calling. Once all
  is calm the master of `ModbusRtuBus` waits, before a request, until the timeouts of
  the slaves are over; without such pauses slaves that lost step may stay so.
* `Resynchronises` assumes a calm server and a user who goes on calling. Its proof
  obligation for the code is the sleep of one response timeout before the flush: an
  answer that is late by less than that is thrown away with the flush.

## Findings

**TCP: another device's socket** (`device_tcp_pair`). A failed reconnect closes the
new socket but leaves its number in `ctx->s`; a second device gets the number; the
first device sends on it or closes it.

What follows are limits of the code that the other runs leave out, by a constant or
an assumption. Those with a configuration can be looked at by running it: TLC
answers with the behaviour.

* **RTU: values of other registers** (`MCClientRtuLate.cfg`). A read times out, a
  second read of as many registers at another address begins, the answer to the first
  arrives and passes every check. `ModbusDevice` sets no recovery for RTU, so nothing
  is flushed, and from then on every answer belongs to the call before. `AnswerFits`
  is what remains true.
* **`connect()` twice leaks** (`MCDeviceTwice.cfg`). `connect()` does not look at
  `connected`; the old descriptor is overwritten and nothing closes it any more. The
  other runs and the theorems of `ModbusDevice` assume that nobody does this
  (`ConnectWhileConnected = FALSE`).
* **A cancelled timer disconnects** (`MCDeviceStale.cfg`). The sleep of the idle task
  ends during an operation; the operation restarts the timer, which does not stop the
  task already queued.
* **RTU never ages out** (`MCDeviceRtuAge.cfg`). The RTU initialiser sets `connected`
  without starting the auto-reconnect timer, also when the port did not open.
* **A server that refuses everything** (`MCStreamRefused.cfg`). "too many data"
  (modbus.c:433) returns without the flush. If a unit of 252 or more (255 is the
  default) answers every read with an exception, two bytes left in the stream shift
  each exception so that it is taken for a message that is too long, and the client
  stays out of step until the connection is closed. With answers that carry
  registers, `Realigns` holds.
* **EAGAIN instead of the reason** (`MCStreamErrno.cfg`). The errno of an answer refused
  for its identifier is overwritten by the flush that follows.
* **Reconnecting a `modbus_new_tcp_pi` context** (add `"tcp_pi"` to `Reconnects` in
  `MCEndpoint.cfg`). `_modbus_tcp_pi_connect` judges its success by `ctx->s`, which keeps
  the number of the connection before: it returns 0 when every address fails.
* **Accepting after a failed accept** (`MCEndpointAccept.cfg`, `ChecksSocket = FALSE`).
  `modbus_tcp_accept` and `modbus_tcp_pi_accept` close the socket whenever `accept`
  fails and set the caller's variable to 0, without looking at its value before. A
  server that goes on in its loop accepts on 0, which fails again, and closes standard
  input; whatever is opened next gets the number 0, and the next accept closes that.
  `OthersStay` is false there, and with it the other properties. The run `endpoint` and
  the theorems assume a program that takes 0 for no listener.
* **Absent slaves and broadcasts on a line** (`Addresses = {1, 2, 3}` or `{0, 1, 2}` in
  `MCRtuBus.cfg`). After a request to a slave that is not there the others throw away
  the next message, also a request to one of them. `modbus_reply` answers broadcasts,
  and each slave takes the answer of another for a broadcast.
* **`.littleEndian`** is the order of the words; the two bytes of a word travel most
  significant first all the same.

## Proofs

All theorems hold for every value of the constants that satisfies the named
assumptions of the modules.

* **`ModbusReceiveProofs`**, about `ModbusPdu`: `RequestAgreement`, `ReplyAgreement`,
  `ExceptionAgreement` - header, fixed part and data as the receiver computes them add
  up to what the sender built, for every function and every quantity up to the limit,
  and fit into the ADU. Case analysis over the functions; `BytesOfBitsBounds` supplies
  the rounding. About `ModbusReceive`: `LoopInvariant` proves the inductive `RInv`:
  the bytes stored and the bytes wanted always add up to the end of the current part
  (`Goal`), which the agreement theorems place inside the frame. From it
  `ReceiveInBuffer`, `ReceiveExactFrame`, `ReceiveLengthAsComputed`, `ReceiveTypeOK`.
  The three properties are not inductive alone: they say nothing of the relation
  between the step and the bytes wanted.
* **`ModbusClientProofs`**: `ClientInvariant` proves `CInv`. Its heart is `TidInv`: a
  request or answer of age `a` carries the identifier of `a` calls ago modulo
  `TidMod`, so that with `MaxLag < TidMod` an equal identifier means age 0. From it
  `TcpOwnAnswer`; `ClientSentOnce` and `ClientTypeOK` from the same invariant.
  `ClientImplementsCall`, on TCP: beginning, refusing, handing over and ending a call
  are the steps of `ModbusCall`, and all else (the sleeps, flushes and reconnects of the
  recovery, the server, the network) is a stutter. That the frame which ends a call
  belongs to its request is `TidInv` with `BelongInv` (`OwnFrame`); that a call which
  ends with `_sleep_and_flush` has failed is `SleepInv`.
  `ClientAnswerFits` adds `BelongInv`: during a call what has age 0 belongs to its
  request. On a serial line it assumes that no request is a broadcast: for those the
  frame of any slave is taken, and `check_integrity` does not look at its checksum.
* **`ModbusStreamProofs`**: `StreamAnswerTaken`, byte by byte, for any contents, any
  pieces and any number of identifiers that fit in a byte. `SInv` says of a call that began with nothing
  outstanding that its request waits alone (`Waiting`), or that its answer is what is
  stored, then what is in the socket, then what is coming, in this order, and what is
  stored and what is wanted end a step of that answer (`Answered`); from it the call
  returns with all of it (`Done`). Splitting a sequence and putting it together again
  is stated once (`Cut` and the lemmas after it).
  `StreamOwnBytes`: also a call that begins in the middle of what was left over takes
  no answer but its own. It needs two hypotheses, each of which the property is false
  without. `TameContents`: no register hides the function code followed by a byte count
  that may be asked for. (With two registers that hold 3, 4, 0, 0, and a flush that
  throws away the first two bytes of an answer, TLC finds the rest taken for the answer
  to a later call with the identifier 0: `check_confirmation` looks at nothing but the
  identifier, the function, the byte count and the length.) `Recent`: fewer bytes are
  under way than `TidMod + 1` answers have; otherwise an answer as old as there are
  identifiers carries the one of the call. `OInv` says of every place that looks like
  function code and byte count (`Mark`) that it belongs to an answer whose age and
  identifier agree (`Known`), that the stream has room behind it for the answers
  younger than it, and that, if its age is 0, it is `own`. A call, an answer, and any
  loss of bytes at the front keep this (`MarksAged`, `MarksAnswered`, `MarksRest`);
  what passes `check_confirmation` has a mark at its eighth byte, whose age can only
  be 0 (`MarksTaken`).
* **`ModbusDeviceProofs`**: `DeviceInvariant` proves `DInv`: which jobs a device can
  be in while connected (`JobInv`), that a device owns no descriptor but the one it
  names and none when it is about to open one (`FdInv`), and the timers (`TimerInv`).
  From it `DeviceNoLeak` and `DeviceTimers`, for any number of devices, provided
  nobody calls `connect()` on a connected one. Although devices may close each other's
  sockets (finding 2), they never lose one: closing only frees. `DeviceTypeOK` adds
  the bound on tasks cancelled too late. `RtuOwnSocket` is the other side of finding
  2: serial devices alone, whoever calls `connect()` when, keep to their own
  descriptors, because `_modbus_rtu_connect` leaves -1 when it fails.
* **`ModbusRtuBusProofs`**: `OnlyRequestsServed`, on a line of any slaves without
  broadcasts. `IInv` adds to the property what each slave may hear: answers carry the
  address of their sender, because a slave serves only what is addressed to it.
  `NoRequestSwallowed`, for any number of slaves that are all there: `InStep` says
  that a request is out, or its answer is, that each slave has read as much of the two
  as it has, and that `confirmation_to_ignore` is set exactly when it has read the
  request to another and not its answer. A port must hold both frames (`MaxHeard >=
  2`). `BusTypeOK` needs neither assumption: broadcasts and absent slaves included.
* **`ModbusEndpointProofs`**: `EndpointNothingLost`, `EndpointConnectTruthful`,
  `EndpointOthersStay`, `EndpointTypeOK`, for any number of contexts, descriptors and
  addresses, whichever call fails. `FdInv` reads the descriptor table in both
  directions (the descriptor of a context is the one it names, and what a connected
  context names is its own), `MemInv` the blocks. The loops over the addresses of
  `_modbus_tcp_pi_connect` and `modbus_tcp_pi_listen` are folds; lemmas about them say
  that they leave one descriptor if an address succeeds and none otherwise. `PiOnce`
  is assumed: no `modbus_new_tcp_pi` context is connected anew after a close; without
  it `ConnectTruthful` is false. `ChecksSocket` is assumed: the program accepts only
  while its socket is above 0; without it `OthersStay` is false, and a context may be
  given the number 0 (see the findings for both). With it, that the descriptor 0 stays
  with the rest of the program is part of `FdInv`.
* **`ModbusDataProofs`**: `ReadsBackWhatWasWritten` and `WritesNetworkOrder`, for
  types of 1 to 16 bytes and any number of values. The lemmas are about
  `convertBigEndian`: it undoes itself, and swapping values and then words puts byte
  `j` of a value at place `j` from the left. `DInv` says that the registers hold the
  last write and the result is what they give. `StringsReadBack`, for strings of any
  length over any characters (`Strings \subseteq Seq(Nat)`), from the same kind of
  invariant: `SomeEnd` gives the first NUL that `readASCIIString` stops at. About
  `ModbusBits`: `BitsStored`, `BitsReadBack`, `BitsPackedAlike`, for tables and calls
  of any size. `PackedBits` says which bit of which byte a bit is; the sums of
  `modbus_write_bits` and `modbus_get_byte_from_bits` (`SumIsEight`, whatever the
  order of the summands) and the loop of `response_io_status` (`FoldIsAcc`, bit by
  bit) give it, and unpacking undoes it (`Unpacked`).
  About `ModbusCrc`: `CrcIsTheProtocols`, `UpToThreeBitsFound`, `OddNumbersFound`, for
  messages of up to 254 bytes. A sum is a set of naturals, the bits that are one; so is
  a whole frame; `Shift` is the step of the protocol's definition for both. Exclusive or
  passes through a shift (`ShiftsOfSum`). Each bit of a table entry is the parity of some
  bits of its index (`HighTable`, `LowTable`, from the 512 numbers), the same that eight
  shifts give (`TablesShift`): the loop is the definition, and a frame with its checksum
  shifts away to nothing (`SumWithChecksum`). A damaged frame that is taken therefore
  has damage that shifts away (`TakenShiftsAway`). An odd number of bits never does, as
  a shift keeps the parity: the polynomial has an even number of terms. Two bits do only
  if one bit, shifted by their distance, is one bit again. The distance is less than
  2048 in a frame of 256 bytes, and `NoReturn` excludes it by the sums after 16, 32, ...
  shifts, none of which has one bit only (`AwayFirst`). Four bits can shift away
  (those of the polynomial do), so the hypothesis `MaxDamage <= 3` is the weakest.
* **`ModbusSystemProofs`**, about `ModbusServer`: `ReplyStaysInside` - for every
  request of the client API and tables of any size `modbus_reply` stores nothing outside its tables,
  function by function. About `ModbusSystem`: `SystemImplementsMemory`, the
  refinement, for any number of clients, identifiers and calls. `SInv` says what a
  connection guarantees: the identifiers of two requests of a client are as far apart
  as their numbers, less one turn (`Apart`), and answers not yet read are older than
  requests not yet read (`InOrder`); from it `SystemSettlesOnReturn`. `MInv` adds that
  a call under way has one request or one answer. `ReplyIsOperation` shows that
  `modbus_reply` is the operation of `ModbusMemory`; each step of the system then is
  `Begin`, `Effect`, `Return`, `Fail`, `StrayEffect` or `StrayLost`, or changes
  nothing there. Also `SystemTypeCorrect`.

Folds and sums over sets are recursive functions over sets of indices. What they
compute for every input is proved without an induction theorem: that such a function
exists is shown by giving it (or by extending one for a smaller set), and a value
that is not the one claimed leads to a least counterexample (`Least`: every nonempty
set of natural numbers has a least element, from the library's `WFMin`).

Only model-checked:

* the liveness properties (`Returns`, `CallReturns`, `Resynchronises`, `Realigns`,
  `Heals`, `AgesOut`, `IdleCloses`), which need fairness and `ENABLED`.

## Not modelled

* In `ModbusClient` and `ModbusSystem` frames arrive whole; `ModbusStream` has the
  bytes, for register reads over TCP. Registers that hold a function code and a byte
  count can be taken for an answer when a call begins in the middle of another (see
  `StreamOwnBytes`); the run leaves such contents out.
* `ModbusSystem` leaves requests sent in part to `ModbusClient` and sends only what the
  client API lets through: at least one value, and as many values as the quantity says.
  `modbus_reply` itself compares nothing but address plus quantity with the table: it
  answers a quantity of 0, and bounds none by the response buffer. Function 7, which it
  leaves unanswered, is in `ModbusServer` but no client call sends it.
* On the line of `ModbusRtuBus` frames are whole; a collision is a frame nobody hears.
  Checksums that hold by chance are left out.
* `write_single` uses a response buffer of 12 bytes, the size of the answer it
  expects; `InBuffer` is about the buffers of `MAX_MESSAGE_LENGTH` bytes that all
  other calls use.
* Values are in the memory order of a little-endian host, the only one the package
  builds for. A string longer than its count, which stops the program, is not written.
* `modbus_send_raw_request`, and changing slave, timeouts or recovery between calls.
* Getters and setters, termios settings, RTS and RS-485 mode, debug output, error
  texts, Windows, `strlcpy`: assignments, kernel parameters or formatting.

## Plan

Done: everything named above. What would come next: writes in `ModbusStream`, and a
proof that one client of `ModbusSystem` is a `ModbusClient` without recovery.
