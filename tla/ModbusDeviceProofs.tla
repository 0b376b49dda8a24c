-------------------------- MODULE ModbusDeviceProofs --------------------------
(***************************************************************************)
(* Connection management for any number of TCP and RTU devices that share  *)
(* the descriptor table, as long as nobody calls connect() on a connected  *)
(* device.                                                                 *)
(***************************************************************************)
EXTENDS ModbusDevice, TLAPS

Words ==
    /\ connected \in [Devices -> BOOLEAN]
    /\ s \in [Devices -> Fds \cup {-1}]
    /\ owner \in [Fds -> Devices \cup {NoOne}]
    /\ link \in [Fds -> {"none", "connecting", "up", "reset"}]
    /\ pc \in [Devices -> PCs]
    /\ after \in [Devices -> {"user", "op", "resend", "giveup"}]
    /\ task \in [Devices -> [Timers -> {"none", "sleeping", "woken"}]]
    /\ stale \in [Devices -> [Timers -> Nat]]

\* Which jobs a device can be in, connected or not.
JobInv ==
    \A d \in Devices :
        /\ pc[d] \in {"call", "send", "recv", "close", "end"} => connected[d]
        /\ pc[d] = "close" => after[d] \in {"resend", "giveup"}
        /\ pc[d] \in {"socket", "connecting"} =>
              (connected[d] <=> after[d] \in {"resend", "giveup"})

\* A device holds at most the descriptor it names, and none when it is about
\* to open one.
FdInv ==
    \A f \in Fds, d \in Devices :
        owner[f] = d =>
            /\ s[d] = f
            /\ pc[d] # "socket"
            /\ pc[d] = "idle" => connected[d]

TimerInv ==
    \A d \in Devices :
        /\ ~connected[d] => \A k \in Timers : task[d][k] # "sleeping"
        /\ pc[d] = "idle" /\ d \in TcpDevices /\ connected[d] /\ DisconnectWhenIdle
              => task[d]["idle"] # "none"

DInv == Words /\ JobInv /\ FdInv /\ TimerInv
-----------------------------------------------------------------------------
\* Starting timers keeps their types and leaves other devices alone.
LEMMA StartTimersEffect ==
    ASSUME Words, NEW d \in Devices, NEW K \in SUBSET Timers, StartTimers(d, K)
    PROVE  /\ task' \in [Devices -> [Timers -> {"none", "sleeping", "woken"}]]
           /\ stale' \in [Devices -> [Timers -> Nat]]
           /\ \A e \in Devices : e # d => task'[e] = task[e]
           /\ DisconnectWhenIdle /\ "idle" \in K => task'[d]["idle"] = "sleeping"
<1>1. /\ task \in [Devices -> [Timers -> {"none", "sleeping", "woken"}]]
      /\ stale \in [Devices -> [Timers -> Nat]]
  BY DEF Words
<1> DEFINE started == K \cap Armed
           tk == [k \in Timers |-> IF k \in started THEN "sleeping" ELSE task[d][k]]
<1>2. /\ task' = [task EXCEPT ![d] = tk]
      /\ stale' = [stale EXCEPT ![d] = Cancelled(d, started)]
  BY DEF StartTimers
<1>3. tk \in [Timers -> {"none", "sleeping", "woken"}]
  BY <1>1
<1>4. Cancelled(d, started) \in [Timers -> Nat]
  BY <1>1 DEF Cancelled
<1>5. DisconnectWhenIdle /\ "idle" \in K => tk["idle"] = "sleeping"
  BY DEF Armed, Timers
<1> HIDE DEF tk, started
<1> QED
  BY <1>1, <1>2, <1>3, <1>4, <1>5

\* Closing a descriptor only ever frees one.
LEMMA CloseFdEffect ==
    ASSUME Words, NEW f \in Fds \cup {-1}, CloseFd(f)
    PROVE  /\ owner' \in [Fds -> Devices \cup {NoOne}]
           /\ link' \in [Fds -> {"none", "connecting", "up", "reset"}]
           /\ \A g \in Fds : owner'[g] \in {owner[g], NoOne}
           /\ f \in Fds => owner'[f] = NoOne
BY DEF Words, CloseFd

\* Opening one gives it to the device and changes no other.
LEMMA OpenFdEffect ==
    ASSUME Words, NEW d \in Devices, NEW st \in {"connecting", "up"}, OpenFd(d, st)
    PROVE  /\ owner' \in [Fds -> Devices \cup {NoOne}]
           /\ link' \in [Fds -> {"none", "connecting", "up", "reset"}]
           /\ s' \in [Devices -> Fds \cup {-1}]
           /\ \A e \in Devices : e # d => s'[e] = s[e]
           /\ \A g \in Fds : owner'[g] = owner[g] \/ (owner'[g] = d /\ s'[d] = g)
<1>1. PICK f \in Free :
         /\ owner' = [owner EXCEPT ![f] = d]
         /\ link' = [link EXCEPT ![f] = st]
         /\ s' = [s EXCEPT ![d] = f]
  BY DEF OpenFd
<1>2. f \in Fds
  BY DEF Free
<1> QED
  BY <1>1, <1>2 DEF Words

LEMMA InitDInv == Init => DInv
<1> SUFFICES ASSUME Init PROVE DInv
  OBVIOUS
<1>1. owner \in [Fds -> Devices \cup {NoOne}]
  BY DEF Init
<1>2. ASSUME NEW f \in Fds, NEW d \in Devices, owner[f] = d
      PROVE  s[d] = f
  <2>1. \E e \in Devices : s[e] = f
    BY <1>2, DeviceAssumption DEF Init
  <2> QED
    BY <1>2, <2>1 DEF Init
<1>3. ASSUME NEW f \in Fds, NEW d \in Devices, owner[f] = d
      PROVE  connected[d]
  <2>1. s[d] # -1
    BY <1>2, <1>3 DEF Fds
  <2> QED
    BY <2>1 DEF Init
<1>4. Words
  BY <1>1 DEF Init, Words, PCs, NoTasks, Timers
<1>5. JobInv
  BY DEF Init, JobInv
<1>6. FdInv
  BY <1>2, <1>3 DEF Init, FdInv
<1>7. TimerInv
  BY DEF Init, TimerInv, NoTasks, Timers
<1> QED
  BY <1>4, <1>5, <1>6, <1>7 DEF DInv

-----------------------------------------------------------------------------
\* disconnect(), whoever runs it.
LEMMA DisconnectDInv ==
    ASSUME DInv, NEW d \in Devices, NEW self \in SUBSET Timers,
           NEW late \in SUBSET Timers, pc[d] = "idle",
           \A k \in late : stale[d][k] > 0,
           Disconnect(d, self, late)
    PROVE  DInv'
<1> DEFINE tasks  == [k \in Timers |-> IF k \in self THEN "none" ELSE task[d][k]]
           queued == [k \in Timers |->
                        (IF k \in self THEN stale[d][k] ELSE Cancelled(d, Timers)[k])
                           - (IF k \in late THEN 1 ELSE 0)]
           rest == [k \in Timers |-> stale[d][k] - (IF k \in late THEN 1 ELSE 0)]
<1>0. Words
  BY DEF DInv
<1>1. /\ tasks \in [Timers -> {"none", "sleeping", "woken"}]
      /\ NoTasks \in [Timers -> {"none", "sleeping", "woken"}]
  BY <1>0 DEF Words, NoTasks
<1>2. queued \in [Timers -> Nat] /\ rest \in [Timers -> Nat]
  BY <1>0 DEF Words, Cancelled
<1>3. CASE connected[d]
  <2>1. /\ CloseFd(s[d])
        /\ connected' = [connected EXCEPT ![d] = FALSE]
        /\ task' = [task EXCEPT ![d] = NoTasks]
        /\ stale' = [stale EXCEPT ![d] = queued]
        /\ s' = s /\ pc' = pc /\ after' = after
    BY <1>3 DEF Disconnect
  <2> HIDE DEF queued
  <2>2. s[d] \in Fds \cup {-1}
    BY <1>0 DEF Words
  <2>3. /\ owner' \in [Fds -> Devices \cup {NoOne}]
        /\ link' \in [Fds -> {"none", "connecting", "up", "reset"}]
        /\ \A g \in Fds : owner'[g] \in {owner[g], NoOne}
        /\ s[d] \in Fds => owner'[s[d]] = NoOne
    BY <1>0, <2>1, <2>2, CloseFdEffect
  <2>4. Words'
    BY <1>0, <1>1, <1>2, <2>1, <2>3 DEF Words
  <2>5. JobInv'
    BY <1>0, <2>1 DEF DInv, JobInv, Words
  <2>6. FdInv'
    <3> SUFFICES ASSUME NEW f \in Fds, NEW e \in Devices, owner'[f] = e
                 PROVE  s[e] = f /\ pc[e] # "socket" /\ (pc[e] = "idle" => connected'[e])
      BY <2>1 DEF FdInv
    <3>1. owner[f] = e
      BY <2>3, DeviceAssumption
    <3>2. s[e] = f /\ pc[e] # "socket" /\ (pc[e] = "idle" => connected[e])
      BY <3>1 DEF DInv, FdInv
    <3>3. e # d
      BY <2>3, <3>2, DeviceAssumption
    <3> QED
      BY <1>0, <2>1, <3>2, <3>3 DEF Words
  <2>7. TimerInv'
    BY <1>0, <2>1 DEF DInv, TimerInv, Words, NoTasks, Timers
  <2> QED
    BY <2>4, <2>5, <2>6, <2>7 DEF DInv
<1>4. CASE ~connected[d]
  <2>1. /\ task' = [task EXCEPT ![d] = tasks]
        /\ stale' = [stale EXCEPT ![d] = rest]
        /\ UNCHANGED <<connected, s, owner, link, pc, after>>
    BY <1>4 DEF Disconnect
  <2>2. \A k \in Timers : tasks[k] # "sleeping"
    BY <1>4 DEF DInv, TimerInv
  <2> HIDE DEF tasks, rest
  <2>3. Words'
    BY <1>0, <1>1, <1>2, <2>1 DEF Words
  <2>4. JobInv' /\ FdInv'
    BY <2>1 DEF DInv, JobInv, FdInv
  <2>5. TimerInv'
    BY <1>0, <1>4, <2>1, <2>2 DEF DInv, TimerInv, Words
  <2> QED
    BY <2>3, <2>4, <2>5 DEF DInv
<1> QED
  BY <1>3, <1>4

LEMMA TimerStepDInv ==
    ASSUME DInv, NEW d \in Devices, TimerStep(d) \/ UserDisconnect(d)
    PROVE  DInv'
<1>1. ASSUME NEW k \in Timers, Wake(d, k) PROVE DInv'
  <2>1. Words'
    BY <1>1 DEF Wake, DInv, Words
  <2>2. JobInv' /\ FdInv'
    BY <1>1 DEF Wake, DInv, JobInv, FdInv
  <2>3. TimerInv'
    BY <1>1 DEF Wake, DInv, Words, TimerInv
  <2> QED
    BY <2>1, <2>2, <2>3 DEF DInv
<1>2. ASSUME NEW k \in Timers, RunTask(d, k) PROVE DInv'
  <2>1. {k} \in SUBSET Timers /\ {} \in SUBSET Timers
    OBVIOUS
  <2>2. pc[d] = "idle" /\ Disconnect(d, {k}, {})
    BY <1>2 DEF RunTask
  <2> QED
    BY <2>1, <2>2, DisconnectDInv
<1>3. ASSUME NEW k \in Timers, RunCancelledTask(d, k) PROVE DInv'
  <2>1. {k} \in SUBSET Timers /\ {} \in SUBSET Timers
    OBVIOUS
  <2>2. pc[d] = "idle" /\ Disconnect(d, {}, {k}) /\ \A j \in {k} : stale[d][j] > 0
    BY <1>3 DEF RunCancelledTask
  <2> QED
    BY <2>1, <2>2, DisconnectDInv
<1>4. CASE UserDisconnect(d)
  <2>1. {} \in SUBSET Timers
    OBVIOUS
  <2>2. pc[d] = "idle" /\ Disconnect(d, {}, {})
    BY <1>4 DEF UserDisconnect
  <2> QED
    BY <2>1, <2>2, DisconnectDInv
<1> QED
  BY <1>1, <1>2, <1>3, <1>4 DEF TimerStep

\* The steps that only move a job on, inside the jobs of a connected device.
LEMMA MoveDInv ==
    ASSUME DInv, NEW d \in Devices,
           CallLibrary(d) \/ SendOk(d) \/ SendShort(d) \/ SendFails(d)
             \/ RecvEnds(d) \/ RecvFindsClosed(d)
    PROVE  DInv'
<1>1. /\ connected[d]
      /\ pc[d] \in {"call", "send", "recv"}
      /\ \E l \in {"send", "recv", "close", "end"} : pc' = [pc EXCEPT ![d] = l]
      /\ \E a \in {"user", "op", "resend", "giveup"} : after' = [after EXCEPT ![d] = a]
      /\ pc'[d] = "close" => after'[d] \in {"resend", "giveup"}
      /\ UNCHANGED <<connected, s, owner, link, task, stale>>
  <2>1. connected[d] /\ pc[d] \in {"call", "send", "recv"}
    BY DEF DInv, JobInv, CallLibrary, SendOk, SendShort, SendFails, RecvEnds, RecvFindsClosed
  <2>2. \E l \in {"send", "recv", "close", "end"} : pc' = [pc EXCEPT ![d] = l]
    BY DEF CallLibrary, SendOk, SendShort, SendFails, RecvEnds, RecvFindsClosed, Goto
  <2>3. /\ after = [after EXCEPT ![d] = after[d]]
        /\ after[d] \in {"user", "op", "resend", "giveup"}
    BY DEF DInv, Words
  <2>4. \E a \in {"user", "op", "resend", "giveup"} : after' = [after EXCEPT ![d] = a]
    BY <2>3 DEF CallLibrary, SendOk, SendShort, SendFails, RecvEnds, RecvFindsClosed
  <2>5. UNCHANGED <<connected, s, owner, link, task, stale>>
    BY DEF CallLibrary, SendOk, SendShort, SendFails, RecvEnds, RecvFindsClosed
  <2>6. pc'[d] = "close" => after'[d] \in {"resend", "giveup"}
    BY DEF CallLibrary, SendOk, SendShort, SendFails, RecvEnds, RecvFindsClosed,
           Goto, DInv, Words
  <2> QED
    BY <2>1, <2>2, <2>4, <2>5, <2>6
<1>2. Words'
  BY <1>1 DEF DInv, Words, PCs
<1>3. JobInv'
  BY <1>1 DEF DInv, Words, JobInv
<1>4. FdInv'
  BY <1>1 DEF DInv, Words, FdInv
<1>5. TimerInv'
  BY <1>1 DEF DInv, Words, TimerInv
<1> QED
  BY <1>2, <1>3, <1>4, <1>5 DEF DInv

LEMMA BeginDInv ==
    ASSUME DInv, ~ConnectWhileConnected, NEW d \in Devices,
           Operate(d) \/ UserConnect(d)
    PROVE  DInv'
<1>1. /\ pc[d] = "idle"
      /\ \E l \in {"call", "socket"}, a \in {"user", "op"} :
            /\ pc' = [pc EXCEPT ![d] = l]
            /\ after' = [after EXCEPT ![d] = a]
            /\ connected[d] <=> l = "call"
      /\ UNCHANGED <<connected, s, owner, link, task, stale>>
  BY DEF Operate, UserConnect, Goto
<1>2. Words'
  BY <1>1 DEF DInv, Words, PCs
<1>3. JobInv'
  BY <1>1 DEF DInv, Words, JobInv
<1>4. FdInv'
  BY <1>1 DEF DInv, Words, FdInv
<1>5. TimerInv'
  BY <1>1 DEF DInv, Words, TimerInv
<1> QED
  BY <1>2, <1>3, <1>4, <1>5 DEF DInv
-----------------------------------------------------------------------------
\* What a step of connecting or closing may do to the descriptors: every one
\* still in use belongs to whoever had it, or is the one `d' has just opened.
Table(d) ==
    /\ s' \in [Devices -> Fds \cup {-1}]
    /\ owner' \in [Fds -> Devices \cup {NoOne}]
    /\ link' \in [Fds -> {"none", "connecting", "up", "reset"}]
    /\ \A g \in Fds, e \in Devices :
          owner'[g] = e => s'[e] = g /\ (e # d => owner[g] = e)

\* close() of ctx->s leaves the device without a descriptor.
LEMMA CloseTable ==
    ASSUME DInv, NEW d \in Devices, CloseFd(s[d]), s' = s
    PROVE  Table(d) /\ \A g \in Fds : owner'[g] # d
<1>1. Words /\ s[d] \in Fds \cup {-1}
  BY DEF DInv, Words
<1>2. /\ owner' \in [Fds -> Devices \cup {NoOne}]
      /\ link' \in [Fds -> {"none", "connecting", "up", "reset"}]
      /\ \A g \in Fds : owner'[g] \in {owner[g], NoOne}
      /\ s[d] \in Fds => owner'[s[d]] = NoOne
  BY <1>1, CloseFdEffect
<1>3. ASSUME NEW g \in Fds, NEW e \in Devices, owner'[g] = e
      PROVE  owner[g] = e /\ s[e] = g
  BY <1>2, <1>3, DeviceAssumption DEF DInv, FdInv
<1>4. \A g \in Fds : owner'[g] # d
  BY <1>2, <1>3, DeviceAssumption
<1> QED
  BY <1>1, <1>2, <1>3, <1>4 DEF Table, Words

\* socket() or open() of a device that holds none.
LEMMA OpenTable ==
    ASSUME DInv, NEW d \in Devices, NEW st \in {"connecting", "up"},
           pc[d] = "socket", OpenFd(d, st)
    PROVE  Table(d)
<1>1. Words
  BY DEF DInv
<1>2. /\ owner' \in [Fds -> Devices \cup {NoOne}]
      /\ link' \in [Fds -> {"none", "connecting", "up", "reset"}]
      /\ s' \in [Devices -> Fds \cup {-1}]
      /\ \A e \in Devices : e # d => s'[e] = s[e]
      /\ \A g \in Fds : owner'[g] = owner[g] \/ (owner'[g] = d /\ s'[d] = g)
  BY <1>1, OpenFdEffect
<1>3. ASSUME NEW g \in Fds, NEW e \in Devices, owner'[g] = e
      PROVE  s'[e] = g /\ (e # d => owner[g] = e)
  <2>1. CASE owner[g] = e
    BY <1>2, <2>1 DEF DInv, FdInv
  <2>2. CASE owner[g] # e
    BY <1>2, <1>3, <2>2
  <2> QED
    BY <2>1, <2>2
<1> QED
  BY <1>2, <1>3 DEF Table

\* No socket to be had: ctx->s becomes -1, which loses no descriptor.
LEMMA NoneTable ==
    ASSUME DInv, NEW d \in Devices, pc[d] = "socket",
           s' = [s EXCEPT ![d] = -1], UNCHANGED <<owner, link>>
    PROVE  Table(d) /\ \A g \in Fds : owner'[g] # d
<1>1. \A g \in Fds : owner[g] # d
  BY DEF DInv, FdInv
<1>2. \A g \in Fds, e \in Devices : owner[g] = e => s[e] = g
  BY DEF DInv, FdInv
<1> QED
  BY <1>1, <1>2 DEF Table, DInv, Words

\* modbus_connect returned 0.
LEMMA SucceedsDInv ==
    ASSUME DInv, NEW d \in Devices, pc[d] \in {"socket", "connecting"},
           Table(d), ConnectSucceeds(d), after' = after
    PROVE  DInv'
<1>0. Words /\ after[d] \in {"user", "op", "resend", "giveup"}
  BY DEF DInv, Words
<1>1. CASE after[d] \in {"user", "op"}
  <2>1. /\ StartTimers(d, Timers)
        /\ connected' = [connected EXCEPT ![d] = TRUE]
        /\ \E l \in {"call", "idle"} : pc' = [pc EXCEPT ![d] = l]
    BY <1>1 DEF ConnectSucceeds, Goto
  <2>2. Timers \in SUBSET Timers /\ "idle" \in Timers
    BY DEF Timers
  <2>3. /\ task' \in [Devices -> [Timers -> {"none", "sleeping", "woken"}]]
        /\ stale' \in [Devices -> [Timers -> Nat]]
        /\ \A e \in Devices : e # d => task'[e] = task[e]
        /\ DisconnectWhenIdle => task'[d]["idle"] = "sleeping"
    BY <1>0, <2>1, <2>2, StartTimersEffect
  <2>4. Words'
    <3>1. pc' \in [Devices -> PCs] /\ connected' \in [Devices -> BOOLEAN]
      BY <1>0, <2>1 DEF Words, PCs
    <3>2. after' \in [Devices -> {"user", "op", "resend", "giveup"}]
      BY <1>0 DEF Words
    <3> QED
      BY <2>3, <3>1, <3>2 DEF Words, Table
  <2>5. JobInv'
    BY <1>0, <2>1 DEF DInv, JobInv, Words
  <2>6. FdInv'
    BY <1>0, <2>1 DEF DInv, FdInv, Words, Table
  <2>7. TimerInv'
    BY <1>0, <2>1, <2>3 DEF DInv, TimerInv, Words
  <2> QED
    BY <2>4, <2>5, <2>6, <2>7 DEF DInv
<1>2. CASE after[d] \in {"resend", "giveup"}
  <2>1. /\ UNCHANGED <<connected, task, stale>>
        /\ \E l \in {"send", "end"} : pc' = [pc EXCEPT ![d] = l]
    BY <1>2 DEF ConnectSucceeds, Goto
  <2>2. connected[d]
    BY <1>2 DEF DInv, JobInv
  <2>4. Words'
    BY <1>0, <2>1 DEF Words, Table, PCs
  <2>5. JobInv'
    BY <1>0, <2>1, <2>2 DEF DInv, JobInv, Words
  <2>6. FdInv'
    BY <1>0, <2>1, <2>2 DEF DInv, FdInv, Words, Table
  <2>7. TimerInv'
    BY <1>0, <2>1 DEF DInv, TimerInv, Words
  <2> QED
    BY <2>4, <2>5, <2>6, <2>7 DEF DInv
<1> QED
  BY <1>0, <1>1, <1>2

\* modbus_connect returned -1, with no descriptor left to the device.
LEMMA FailsDInv ==
    ASSUME DInv, NEW d \in Devices, pc[d] \in {"socket", "connecting"},
           Table(d), \A g \in Fds : owner'[g] # d,
           ConnectFails(d), after' = after
    PROVE  DInv'
<1>0. Words /\ after[d] \in {"user", "op", "resend", "giveup"}
  BY DEF DInv, Words
<1>1. /\ UNCHANGED <<connected, task, stale>>
      /\ \E l \in {"send", "end", "idle"} :
            /\ pc' = [pc EXCEPT ![d] = l]
            /\ l = "idle" <=> after[d] \in {"user", "op"}
  BY <1>0 DEF ConnectFails, Goto
<1>2. connected[d] <=> after[d] \in {"resend", "giveup"}
  BY DEF DInv, JobInv
<1>3. Words'
  BY <1>0, <1>1 DEF Words, Table, PCs
<1>4. JobInv'
  BY <1>0, <1>1, <1>2 DEF DInv, JobInv, Words
<1>5. FdInv'
  BY <1>0, <1>1 DEF DInv, FdInv, Words, Table
<1>6. TimerInv'
  BY <1>0, <1>1, <1>2 DEF DInv, TimerInv, Words
<1> QED
  BY <1>3, <1>4, <1>5, <1>6 DEF DInv

-----------------------------------------------------------------------------
LEMMA ConnectStepDInv ==
    ASSUME DInv, NEW d \in Devices,
           TcpSocket(d) \/ TcpConnectOk(d) \/ TcpConnectFails(d) \/ RtuConnect(d)
    PROVE  DInv'
<1>0. Words
  BY DEF DInv
<1>1. CASE TcpSocket(d)
  <2>0. pc[d] = "socket" /\ after' = after
    BY <1>1 DEF TcpSocket
  <2>1. CASE /\ OpenFd(d, "connecting") /\ Goto(d, "connecting")
             /\ UNCHANGED <<connected, task, stale>>
    <3>1. Table(d)
      BY <2>0, <2>1, OpenTable
    <3>2. pc' = [pc EXCEPT ![d] = "connecting"]
      BY <2>1 DEF Goto
    <3>3. Words'
      BY <1>0, <2>0, <2>1, <3>1, <3>2 DEF Words, Table, PCs
    <3>4. JobInv'
      BY <1>0, <2>0, <2>1, <3>2 DEF DInv, JobInv, Words
    <3>5. FdInv'
      BY <1>0, <2>1, <3>1, <3>2 DEF DInv, FdInv, Words, Table
    <3>6. TimerInv'
      BY <1>0, <2>1, <3>2 DEF DInv, TimerInv, Words
    <3> QED
      BY <3>3, <3>4, <3>5, <3>6 DEF DInv
  <2>2. CASE s' = [s EXCEPT ![d] = -1] /\ ConnectFails(d) /\ UNCHANGED <<owner, link>>
    BY <2>0, <2>2, NoneTable, FailsDInv
  <2> QED
    BY <1>1, <2>1, <2>2 DEF TcpSocket
<1>2. CASE TcpConnectOk(d)
  <2>1. /\ pc[d] = "connecting" /\ ConnectSucceeds(d) /\ UNCHANGED <<s, owner, after>>
        /\ link' = [link EXCEPT ![s[d]] = "up"]
    BY <1>2 DEF TcpConnectOk
  <2>2. Table(d)
    BY <1>0, <2>1 DEF DInv, FdInv, Words, Table
  <2> QED
    BY <2>1, <2>2, SucceedsDInv
<1>3. CASE TcpConnectFails(d)
  BY <1>3, CloseTable, FailsDInv DEF TcpConnectFails
<1>4. CASE RtuConnect(d)
  <2>0. pc[d] = "socket" /\ after' = after
    BY <1>4 DEF RtuConnect
  <2>1. CASE OpenFd(d, "up") /\ ConnectSucceeds(d)
    BY <2>0, <2>1, OpenTable, SucceedsDInv
  <2>2. CASE s' = [s EXCEPT ![d] = -1] /\ ConnectFails(d) /\ UNCHANGED <<owner, link>>
    BY <2>0, <2>2, NoneTable, FailsDInv
  <2> QED
    BY <1>4, <2>1, <2>2 DEF RtuConnect
<1> QED
  BY <1>1, <1>2, <1>3, <1>4

LEMMA RecoveryCloseDInv ==
    ASSUME DInv, NEW d \in Devices, RecoveryClose(d)
    PROVE  DInv'
<1>0. Words
  BY DEF DInv
<1>1. /\ pc[d] = "close" /\ CloseFd(s[d]) /\ pc' = [pc EXCEPT ![d] = "socket"]
      /\ UNCHANGED <<connected, s, after, task, stale>>
  BY DEF RecoveryClose, Goto
<1>2. Table(d) /\ \A g \in Fds : owner'[g] # d
  BY <1>1, CloseTable
<1>3. Words'
  BY <1>0, <1>1, <1>2 DEF Words, Table, PCs
<1>4. JobInv'
  BY <1>0, <1>1 DEF DInv, JobInv, Words
<1>5. FdInv'
  BY <1>0, <1>1, <1>2 DEF DInv, FdInv, Words, Table
<1>6. TimerInv'
  BY <1>0, <1>1 DEF DInv, TimerInv, Words
<1> QED
  BY <1>3, <1>4, <1>5, <1>6 DEF DInv

LEMMA EndOperationDInv ==
    ASSUME DInv, NEW d \in Devices, EndOperation(d)
    PROVE  DInv'
<1>0. Words
  BY DEF DInv
<1>1. /\ pc[d] = "end" /\ StartTimers(d, {"idle"}) /\ pc' = [pc EXCEPT ![d] = "idle"]
      /\ UNCHANGED <<connected, s, owner, link, after>>
  BY DEF EndOperation, Goto
<1>2. {"idle"} \in SUBSET Timers /\ "idle" \in {"idle"}
  BY DEF Timers
<1>3. /\ task' \in [Devices -> [Timers -> {"none", "sleeping", "woken"}]]
      /\ stale' \in [Devices -> [Timers -> Nat]]
      /\ \A e \in Devices : e # d => task'[e] = task[e]
      /\ DisconnectWhenIdle => task'[d]["idle"] = "sleeping"
  BY <1>0, <1>1, <1>2, StartTimersEffect
<1>4. connected[d]
  BY <1>1 DEF DInv, JobInv
<1>5. Words'
  BY <1>0, <1>1, <1>3 DEF Words, PCs
<1>6. JobInv'
  BY <1>0, <1>1 DEF DInv, JobInv, Words
<1>7. FdInv'
  BY <1>0, <1>1, <1>4 DEF DInv, FdInv, Words
<1>8. TimerInv'
  BY <1>0, <1>1, <1>3, <1>4 DEF DInv, TimerInv, Words
<1> QED
  BY <1>5, <1>6, <1>7, <1>8 DEF DInv

LEMMA PeerGoesDInv ==
    ASSUME DInv, NEW f \in Fds, PeerGoes(f)
    PROVE  DInv'
<1>1. Words'
  BY DEF DInv, Words, PeerGoes
<1>2. JobInv' /\ FdInv' /\ TimerInv'
  BY DEF DInv, JobInv, FdInv, TimerInv, PeerGoes
<1> QED
  BY <1>1, <1>2 DEF DInv

-----------------------------------------------------------------------------
\* The inductive invariant, for any set of devices and any number of
\* descriptors, when connect() is only called on a device that is not
\* connected.
THEOREM DeviceInvariant ==
    ASSUME ~ConnectWhileConnected
    PROVE  Spec => []DInv
<1>1. Init => DInv
  BY InitDInv
<1>2. DInv /\ [Next]_vars => DInv'
  <2> SUFFICES ASSUME DInv, [Next]_vars PROVE DInv'
    OBVIOUS
  <2>1. CASE UNCHANGED vars
    BY <2>1 DEF vars, DInv, Words, JobInv, FdInv, TimerInv
  <2>2. ASSUME NEW d \in Devices, LibraryStep(d) PROVE DInv'
    BY <2>2, ConnectStepDInv, MoveDInv, RecoveryCloseDInv, EndOperationDInv DEF LibraryStep
  <2>3. ASSUME NEW d \in Devices, UserStep(d) PROVE DInv'
    BY <2>3, BeginDInv, TimerStepDInv DEF UserStep
  <2>4. ASSUME NEW d \in Devices, TimerStep(d) PROVE DInv'
    BY <2>4, TimerStepDInv
  <2>5. ASSUME NEW f \in Fds, PeerGoes(f) PROVE DInv'
    BY <2>5, PeerGoesDInv
  <2> QED
    BY <2>1, <2>2, <2>3, <2>4, <2>5 DEF Next
<1> QED
  BY <1>1, <1>2, PTL DEF Spec

\* connect, the error recovery and disconnect leave no descriptor behind
\* (modbus_close and modbus_connect in modbus.c, connect and disconnect in
\* ModbusDevice.swift), however many devices reuse each other's numbers.
THEOREM DeviceNoLeak ==
    ASSUME ~ConnectWhileConnected
    PROVE  Spec => []NoLeak
<1>1. DInv => NoLeak
  BY DEF DInv, FdInv, NoLeak
<1> QED
  BY <1>1, DeviceInvariant, PTL

\* disconnect() cancels both timers and every operation of a TCP device leaves
\* the idle timer running (ModbusDevice.swift).
THEOREM DeviceTimers ==
    ASSUME ~ConnectWhileConnected
    PROVE  Spec => []TimersFollowConnection
<1>1. DInv => TimersFollowConnection
  BY DEF DInv, TimerInv, TimersFollowConnection
<1> QED
  BY <1>1, DeviceInvariant, PTL

-----------------------------------------------------------------------------
\* A task that has woken up will be one more in the queue when it is cancelled.
Waiting(d, k) == stale[d][k] + (IF task[d][k] = "woken" THEN 1 ELSE 0)

StaleInv == \A d \in Devices, k \in Timers : Waiting(d, k) <= MaxStale

\* Starting and cancelling timers makes no queue longer.
LEMMA StartTimersStale ==
    ASSUME Words, StaleInv, NEW d \in Devices, NEW K \in SUBSET Timers, StartTimers(d, K)
    PROVE  StaleInv'
<1> DEFINE started == K \cap Armed
           tk == [k \in Timers |-> IF k \in started THEN "sleeping" ELSE task[d][k]]
<1>1. /\ task' = [task EXCEPT ![d] = tk]
      /\ stale' = [stale EXCEPT ![d] = Cancelled(d, started)]
  BY DEF StartTimers
<1>2. \A k \in Timers :
         /\ tk[k] = IF k \in started THEN "sleeping" ELSE task[d][k]
         /\ Cancelled(d, started)[k] =
              stale[d][k] + (IF k \in started /\ task[d][k] = "woken" THEN 1 ELSE 0)
  BY DEF Cancelled
<1> HIDE DEF tk, started
<1>3. ASSUME NEW e \in Devices, NEW k \in Timers PROVE (Waiting(e, k) <= MaxStale)'
  <2>1. Waiting(e, k) <= MaxStale /\ stale[e][k] \in Nat /\ MaxStale \in Nat
    BY DeviceAssumption DEF StaleInv, Words
  <2>2. CASE e # d
    BY <1>1, <2>1, <2>2 DEF Waiting, Words
  <2>3. CASE e = d
    <3>1. task'[e][k] = tk[k] /\ stale'[e][k] = Cancelled(d, started)[k]
      BY <1>1, <2>3 DEF Words
    <3> QED
      BY <1>2, <2>1, <2>3, <3>1 DEF Waiting
  <2> QED
    BY <2>2, <2>3
<1> QED
  BY <1>3 DEF StaleInv

LEMMA DisconnectStale ==
    ASSUME Words, StaleInv, NEW d \in Devices, NEW self \in SUBSET Timers,
           NEW late \in SUBSET Timers, \A k \in late : stale[d][k] > 0,
           Disconnect(d, self, late)
    PROVE  StaleInv'
<1> DEFINE tasks == [k \in Timers |-> IF k \in self THEN "none" ELSE task[d][k]]
           queued == [k \in Timers |->
                        (IF k \in self THEN stale[d][k] ELSE Cancelled(d, Timers)[k])
                           - (IF k \in late THEN 1 ELSE 0)]
           taken == [k \in Timers |-> stale[d][k] - (IF k \in late THEN 1 ELSE 0)]
<1>1. \/ task' = [task EXCEPT ![d] = NoTasks] /\ stale' = [stale EXCEPT ![d] = queued]
      \/ task' = [task EXCEPT ![d] = tasks] /\ stale' = [stale EXCEPT ![d] = taken]
  BY DEF Disconnect
<1>2. \A k \in Timers :
         /\ tasks[k] = IF k \in self THEN "none" ELSE task[d][k]
         /\ NoTasks[k] = "none"
         /\ queued[k] = (IF k \in self THEN stale[d][k] ELSE Cancelled(d, Timers)[k])
                           - (IF k \in late THEN 1 ELSE 0)
         /\ taken[k] = stale[d][k] - (IF k \in late THEN 1 ELSE 0)
         /\ Cancelled(d, Timers)[k] =
              stale[d][k] + (IF task[d][k] = "woken" THEN 1 ELSE 0)
  BY DEF NoTasks, Cancelled
<1> HIDE DEF tasks, queued, taken
<1>3. ASSUME NEW e \in Devices, NEW k \in Timers PROVE (Waiting(e, k) <= MaxStale)'
  <2>1. Waiting(e, k) <= MaxStale /\ stale[e][k] \in Nat /\ MaxStale \in Nat
    BY DeviceAssumption DEF StaleInv, Words
  <2>2. CASE e # d
    BY <1>1, <2>1, <2>2 DEF Waiting, Words
  <2>3. CASE e = d
    <3>1. \/ task'[e][k] = "none" /\ stale'[e][k] = queued[k]
          \/ task'[e][k] = tasks[k] /\ stale'[e][k] = taken[k]
      BY <1>1, <1>2, <2>3 DEF Words
    <3> QED
      BY <1>2, <2>1, <2>3, <3>1 DEF Waiting
  <2> QED
    BY <2>2, <2>3
<1> QED
  BY <1>3 DEF StaleInv

LEMMA TimerStepStale ==
    ASSUME Words, StaleInv, NEW d \in Devices, TimerStep(d) \/ UserDisconnect(d)
    PROVE  StaleInv'
<1>0. {} \in SUBSET Timers
  OBVIOUS
<1>1. ASSUME NEW k \in Timers, Wake(d, k) PROVE StaleInv'
  <2>1. ASSUME NEW e \in Devices, NEW j \in Timers PROVE (Waiting(e, j) <= MaxStale)'
    <3>1. Waiting(e, j) <= MaxStale /\ stale[e][j] \in Nat /\ MaxStale \in Nat
      BY DeviceAssumption DEF StaleInv, Words
    <3>2. CASE e = d /\ j = k
      BY <1>1, <3>1, <3>2 DEF Wake, Waiting, Words
    <3>3. CASE ~(e = d /\ j = k)
      <4>1. task'[e][j] = task[e][j] /\ stale'[e][j] = stale[e][j]
        BY <1>1, <3>3 DEF Wake, Words
      <4> QED
        BY <3>1, <4>1 DEF Waiting
    <3> QED
      BY <3>2, <3>3
  <2> QED
    BY <2>1 DEF StaleInv
<1>2. ASSUME NEW k \in Timers, RunTask(d, k) PROVE StaleInv'
  <2>1. {k} \in SUBSET Timers /\ Disconnect(d, {k}, {})
    BY <1>2 DEF RunTask
  <2> QED
    BY <1>0, <2>1, DisconnectStale
<1>3. ASSUME NEW k \in Timers, RunCancelledTask(d, k) PROVE StaleInv'
  <2>1. {k} \in SUBSET Timers /\ Disconnect(d, {}, {k}) /\ \A j \in {k} : stale[d][j] > 0
    BY <1>3 DEF RunCancelledTask
  <2> QED
    BY <1>0, <2>1, DisconnectStale
<1>4. CASE UserDisconnect(d)
  <2>1. Disconnect(d, {}, {})
    BY <1>4 DEF UserDisconnect
  <2> QED
    BY <1>0, <2>1, DisconnectStale
<1> QED
  BY <1>1, <1>2, <1>3, <1>4 DEF TimerStep

LEMMA LibraryStepStale ==
    ASSUME Words, StaleInv, NEW d \in Devices, LibraryStep(d)
    PROVE  StaleInv'
<1>1. Timers \in SUBSET Timers /\ {"idle"} \in SUBSET Timers
  BY DEF Timers
<1>2. UNCHANGED <<task, stale>> \/ \E K \in SUBSET Timers : StartTimers(d, K)
  <2>1. CASE ConnectSucceeds(d) \/ ConnectFails(d) \/ EndOperation(d)
    BY <1>1, <2>1 DEF ConnectSucceeds, ConnectFails, EndOperation
  <2>2. CASE TcpSocket(d) \/ TcpConnectOk(d) \/ TcpConnectFails(d) \/ RtuConnect(d)
    BY <2>1, <2>2 DEF TcpSocket, TcpConnectOk, TcpConnectFails, RtuConnect
  <2>3. CASE \/ CallLibrary(d) \/ SendOk(d) \/ SendShort(d) \/ SendFails(d)
             \/ RecvEnds(d) \/ RecvFindsClosed(d) \/ RecoveryClose(d)
    BY <2>3 DEF CallLibrary, SendOk, SendShort, SendFails, RecvEnds,
                RecvFindsClosed, RecoveryClose
  <2> QED
    BY <2>1, <2>2, <2>3 DEF LibraryStep
<1>3. CASE UNCHANGED <<task, stale>>
  BY <1>3 DEF StaleInv, Waiting
<1> QED
  BY <1>2, <1>3, StartTimersStale

\* Every variable keeps its type; in particular the timers that were cancelled
\* too late stay within the bound the specification sets for timers that wake up.
THEOREM DeviceTypeOK ==
    ASSUME ~ConnectWhileConnected
    PROVE  Spec => []TypeOK
<1>1. Init => StaleInv
  BY DeviceAssumption DEF Init, StaleInv, Waiting, NoTasks
<1>2. DInv /\ StaleInv /\ [Next]_vars => StaleInv'
  <2> SUFFICES ASSUME Words, StaleInv, [Next]_vars PROVE StaleInv'
    BY DEF DInv
  <2>1. CASE UNCHANGED vars
    BY <2>1 DEF vars, StaleInv, Waiting
  <2>2. ASSUME NEW d \in Devices, LibraryStep(d) PROVE StaleInv'
    BY <2>2, LibraryStepStale
  <2>3. ASSUME NEW d \in Devices, Operate(d) \/ UserConnect(d) PROVE StaleInv'
    BY <2>3 DEF Operate, UserConnect, StaleInv, Waiting
  <2>4. ASSUME NEW d \in Devices, UserDisconnect(d) \/ TimerStep(d) PROVE StaleInv'
    BY <2>4, TimerStepStale
  <2>5. ASSUME NEW f \in Fds, PeerGoes(f) PROVE StaleInv'
    BY <2>5 DEF PeerGoes, StaleInv, Waiting
  <2> QED
    BY <2>1, <2>2, <2>3, <2>4, <2>5 DEF Next, UserStep
<1>3. DInv /\ StaleInv => TypeOK
  <2> SUFFICES ASSUME Words, StaleInv PROVE TypeOK
    BY DEF DInv
  <2>1. ASSUME NEW d \in Devices, NEW k \in Timers PROVE stale[d][k] \in 0 .. MaxStale
    BY DeviceAssumption DEF Words, StaleInv, Waiting
  <2>2. stale \in [Devices -> [Timers -> 0 .. MaxStale]]
    BY <2>1 DEF Words
  <2> QED
    BY <2>2 DEF Words, TypeOK
<1> QED
  BY <1>1, <1>2, <1>3, DeviceInvariant, PTL DEF Spec

-----------------------------------------------------------------------------
(***************************************************************************)
(* Serial devices keep to their own descriptors, whoever calls connect()   *)
(* when: there is no error recovery, and _modbus_rtu_connect leaves -1     *)
(* behind when it fails.                                                   *)
(***************************************************************************)
RtuWords ==
    /\ connected \in [Devices -> BOOLEAN]
    /\ s \in [Devices -> Fds \cup {-1}]
    /\ owner \in [Fds -> Devices \cup {NoOne}]
    /\ pc \in [Devices -> PCs]
    /\ \A d \in Devices : pc[d] \notin {"close", "connecting"}

\* Stronger than OwnSocket: what a device uses is open.
RtuOwn == \A d \in Devices : Uses(d) /\ s[d] \in Fds => owner[s[d]] = d

RtuInv == RtuWords /\ RtuOwn

LEMMA InitRtuInv == Init => RtuInv
<1> SUFFICES ASSUME Init PROVE RtuInv
  OBVIOUS
<1>1. RtuWords
  BY DEF Init, RtuWords, PCs
<1>2. ASSUME NEW d \in Devices, s[d] \in Fds PROVE owner[s[d]] = d
  <2> DEFINE opener == CHOOSE e \in Devices : s[e] = s[d]
  <2>1. owner[s[d]] = opener
    BY <1>2 DEF Init
  <2>2. opener \in Devices /\ s[opener] = s[d]
    OBVIOUS
  <2>3. s[d] # -1
    BY <1>2 DEF Fds
  <2> QED
    BY <2>1, <2>2, <2>3 DEF Init
<1> QED
  BY <1>1, <1>2 DEF RtuInv, RtuOwn

\* disconnect() closes what the device opened itself.
LEMMA DisconnectRtuInv ==
    ASSUME RtuInv, NEW d \in Devices, NEW self, NEW late,
           pc[d] = "idle", Disconnect(d, self, late)
    PROVE  RtuInv'
<1>1. CASE ~connected[d]
  BY <1>1 DEF RtuInv, RtuWords, RtuOwn, Disconnect, Uses
<1>2. CASE connected[d]
  <2>1. /\ CloseFd(s[d])
        /\ connected' = [connected EXCEPT ![d] = FALSE]
        /\ UNCHANGED <<s, pc>>
    BY <1>2 DEF Disconnect
  <2>2. \/ s[d] \in Fds /\ owner' = [owner EXCEPT ![s[d]] = NoOne]
        \/ owner' = owner
    BY <2>1 DEF CloseFd
  <2>3. RtuWords'
    BY <2>1, <2>2 DEF RtuInv, RtuWords
  <2>4. ASSUME NEW e \in Devices, Uses(e)', s'[e] \in Fds
        PROVE  owner'[s'[e]] = e
    <3>1. e # d
      BY <2>1, <2>4 DEF Uses, RtuInv, RtuWords
    <3>2. Uses(e) /\ s[e] \in Fds /\ s'[e] = s[e]
      BY <2>1, <2>4, <3>1 DEF Uses, RtuInv, RtuWords
    <3>3. owner[s[e]] = e
      BY <3>2 DEF RtuInv, RtuOwn
    <3>4. s[d] \in Fds => owner[s[d]] = d
      BY <1>2 DEF RtuInv, RtuOwn, Uses
    <3> QED
      BY <2>2, <3>1, <3>2, <3>3, <3>4 DEF RtuInv, RtuWords
  <2> QED
    BY <2>3, <2>4 DEF RtuInv, RtuOwn
<1> QED
  BY <1>1, <1>2

LEMMA TimerStepRtuInv ==
    ASSUME RtuInv, NEW d \in Devices, TimerStep(d) \/ UserDisconnect(d)
    PROVE  RtuInv'
<1>1. ASSUME NEW k \in Timers, Wake(d, k) PROVE RtuInv'
  BY <1>1 DEF Wake, RtuInv, RtuWords, RtuOwn, Uses
<1>2. ASSUME NEW k \in Timers, RunTask(d, k) PROVE RtuInv'
  BY <1>2, DisconnectRtuInv DEF RunTask
<1>3. ASSUME NEW k \in Timers, RunCancelledTask(d, k) PROVE RtuInv'
  BY <1>3, DisconnectRtuInv DEF RunCancelledTask
<1>4. ASSUME UserDisconnect(d) PROVE RtuInv'
  BY <1>4, DisconnectRtuInv DEF UserDisconnect
<1> QED
  BY <1>1, <1>2, <1>3, <1>4 DEF TimerStep

\* The steps that open and close nothing: a job only goes on to use what it,
\* or the connected device, had in use before.
LEMMA MoveRtuInv ==
    ASSUME RtuInv, NEW d \in Devices, d \notin TcpDevices,
           \/ Operate(d) \/ UserConnect(d)
           \/ CallLibrary(d) \/ SendOk(d) \/ SendShort(d) \/ SendFails(d)
           \/ RecvEnds(d) \/ RecvFindsClosed(d) \/ EndOperation(d)
    PROVE  RtuInv'
<1>1. UNCHANGED <<connected, s, owner>>
  BY DEF Operate, UserConnect, CallLibrary, SendOk, SendShort, SendFails,
         RecvEnds, RecvFindsClosed, EndOperation
<1>2. \E l \in {"idle", "socket", "call", "send", "recv", "end"} :
         /\ Goto(d, l)
         /\ l = "socket" \/ Uses(d)
  BY DEF Operate, UserConnect, CallLibrary, SendOk, SendShort, SendFails,
         RecvEnds, RecvFindsClosed, EndOperation, Uses
<1>3. PICK l \in {"idle", "socket", "call", "send", "recv", "end"} :
         /\ pc' = [pc EXCEPT ![d] = l]
         /\ l = "socket" \/ Uses(d)
  BY <1>2 DEF Goto
<1>4. RtuWords'
  BY <1>1, <1>3 DEF RtuInv, RtuWords, PCs
<1>5. ASSUME NEW e \in Devices, Uses(e)' PROVE Uses(e)
  BY <1>1, <1>3, <1>5 DEF RtuInv, RtuWords, Uses
<1> QED
  BY <1>1, <1>4, <1>5 DEF RtuInv, RtuOwn

\* _modbus_rtu_connect: a free descriptor, or none.
LEMMA RtuConnectRtuInv ==
    ASSUME RtuInv, NEW d \in Devices, RtuConnect(d)
    PROVE  RtuInv'
<1>1. \E l \in PCs \ {"close", "connecting"} : pc' = [pc EXCEPT ![d] = l]
  BY DEF RtuConnect, ConnectSucceeds, ConnectFails, Goto, PCs
<1>2. /\ connected' \in [Devices -> BOOLEAN]
      /\ \A e \in Devices : e # d => connected'[e] = connected[e]
  BY DEF RtuConnect, ConnectSucceeds, ConnectFails, RtuInv, RtuWords
<1>3. ASSUME NEW e \in Devices, e # d, Uses(e)' PROVE Uses(e)
  BY <1>1, <1>2, <1>3 DEF RtuInv, RtuWords, Uses
<1>4. CASE \E f \in Free : /\ owner' = [owner EXCEPT ![f] = d]
                           /\ s' = [s EXCEPT ![d] = f]
  <2>1. PICK f \in Fds : /\ owner[f] = NoOne
                         /\ owner' = [owner EXCEPT ![f] = d]
                         /\ s' = [s EXCEPT ![d] = f]
    BY <1>4 DEF Free
  <2>2. RtuWords'
    BY <1>1, <1>2, <2>1 DEF RtuInv, RtuWords
  <2>3. ASSUME NEW e \in Devices, Uses(e)', s'[e] \in Fds
        PROVE  owner'[s'[e]] = e
    <3>1. CASE e = d
      BY <2>1, <3>1 DEF RtuInv, RtuWords
    <3>2. CASE e # d
      <4>1. s'[e] = s[e] /\ owner[s[e]] = e
        BY <1>3, <2>1, <2>3, <3>2 DEF RtuInv, RtuWords, RtuOwn
      <4>2. s[e] # f
        BY <2>1, <4>1, DeviceAssumption
      <4> QED
        BY <2>1, <2>3, <4>1, <4>2 DEF RtuInv, RtuWords
    <3> QED
      BY <3>1, <3>2
  <2> QED
    BY <2>2, <2>3 DEF RtuInv, RtuOwn
<1>5. CASE s' = [s EXCEPT ![d] = -1] /\ UNCHANGED owner
  <2>1. RtuWords'
    BY <1>1, <1>2, <1>5 DEF RtuInv, RtuWords
  <2>2. ASSUME NEW e \in Devices, Uses(e)', s'[e] \in Fds
        PROVE  owner'[s'[e]] = e
    <3>1. e # d
      BY <1>5, <2>2 DEF RtuInv, RtuWords, Fds
    <3> QED
      BY <1>3, <1>5, <2>2, <3>1 DEF RtuInv, RtuWords, RtuOwn
  <2> QED
    BY <2>1, <2>2 DEF RtuInv, RtuOwn
<1> QED
  BY <1>4, <1>5 DEF RtuConnect, OpenFd

\* However the serial devices of a process reuse each other's descriptor
\* numbers, no device sends on, reads from or closes one of another
\* (_modbus_rtu_connect and _modbus_rtu_close in modbus-rtu.c; connect and
\* disconnect in ModbusDevice.swift).
THEOREM RtuOwnSocket ==
    ASSUME TcpDevices = {}
    PROVE  Spec => []OwnSocket
<1>1. Init => RtuInv
  BY InitRtuInv
<1>2. RtuInv /\ [Next]_vars => RtuInv'
  <2> SUFFICES ASSUME RtuInv, [Next]_vars PROVE RtuInv'
    OBVIOUS
  <2>1. CASE UNCHANGED vars
    BY <2>1 DEF vars, RtuInv, RtuWords, RtuOwn, Uses
  <2>2. ASSUME NEW d \in Devices, LibraryStep(d) PROVE RtuInv'
    <3>1. ~TcpSocket(d) /\ ~TcpConnectOk(d) /\ ~TcpConnectFails(d) /\ ~RecoveryClose(d)
      BY DEF TcpSocket, TcpConnectOk, TcpConnectFails, RecoveryClose, RtuInv, RtuWords
    <3> QED
      BY <2>2, <3>1, RtuConnectRtuInv, MoveRtuInv DEF LibraryStep
  <2>3. ASSUME NEW d \in Devices, UserStep(d) \/ TimerStep(d) PROVE RtuInv'
    BY <2>3, MoveRtuInv, TimerStepRtuInv DEF UserStep
  <2>4. ASSUME NEW f \in Fds, PeerGoes(f) PROVE RtuInv'
    BY <2>4 DEF PeerGoes, RtuInv, RtuWords, RtuOwn, Uses
  <2> QED
    BY <2>1, <2>2, <2>3, <2>4 DEF Next
<1>3. RtuInv => OwnSocket
  BY DEF RtuInv, RtuOwn, OwnSocket
<1> QED
  BY <1>1, <1>2, <1>3, PTL DEF Spec
=============================================================================
