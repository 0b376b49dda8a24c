----------------------------- MODULE ModbusDevice -----------------------------
(***************************************************************************)
(* The Swift actor ModbusDevice (ModbusDevice.swift): connection           *)
(* management with its two timer tasks, on top of what connecting, sending *)
(* and receiving do to the descriptor ctx->s (modbus.c, modbus-tcp.c,      *)
(* modbus-rtu.c).                                                          *)
(*                                                                         *)
(* An actor runs one job at a time, and the C calls inside a job block, so *)
(* the jobs of one device do not interleave.  What interleaves is:         *)
(*  - the jobs of a device with its timers, whose sleep ends at any time   *)
(*    and whose disconnect() then waits in the actor's queue, where        *)
(*    Task.cancel() no longer reaches it;                                  *)
(*  - the system calls of different devices, which share the table of      *)
(*    file descriptors of the process;                                     *)
(*  - the peer, which may go away.                                         *)
(***************************************************************************)
EXTENDS Integers, FiniteSets

CONSTANTS
    Devices,
    TcpDevices,             \* the others are serial (RTU)
    NoOne,                  \* owner of a free descriptor
    MaxFd,                  \* descriptors are 0 .. MaxFd
    MaxStale,               \* bound: cancelled tasks waiting in an actor's queue
    AutoReconnect,          \* autoReconnectAfter > 0
    DisconnectWhenIdle,     \* disconnectWhenIdleAfter > 0
    UserDisconnects,        \* the user calls disconnect()
    ConnectWhileConnected   \* the user calls connect() on a connected device

ASSUME DeviceAssumption ==
    /\ IsFiniteSet(Devices) /\ TcpDevices \subseteq Devices /\ NoOne \notin Devices
    /\ MaxFd \in Nat /\ MaxStale \in Nat \ {0}
    /\ {AutoReconnect, DisconnectWhenIdle, UserDisconnects, ConnectWhileConnected}
          \subseteq BOOLEAN

VARIABLES
    connected,  \* ModbusDevice.connected
    s,          \* ctx->s
    owner,      \* who opened the descriptor (NoOne: it is free)
    link,       \* the connection behind the descriptor
    pc,         \* what the running job of a device does next
    after,      \* why it connects
    task,       \* _autoReconnectTask and _disconnectWhenIdleTask
    stale       \* tasks that were cancelled after their sleep had ended

vars == <<connected, s, owner, link, pc, after, task, stale>>

Fds == 0 .. MaxFd
Timers == {"auto", "idle"}
NoTasks == [k \in Timers |-> "none"]
\* Mutants: one timer is thought to be enough; both timers test autoReconnectAfter.
Armed_One == IF DisconnectWhenIdle THEN {"idle"} ELSE IF AutoReconnect THEN {"auto"} ELSE {}
Armed_WrongDelay == IF AutoReconnect THEN Timers ELSE {}

\* The timers that are in use.
Armed == (IF AutoReconnect THEN {"auto"} ELSE {})
           \cup (IF DisconnectWhenIdle THEN {"idle"} ELSE {})

\* The two initialisers.  A TCP device starts unconnected; an RTU device says
\* it is connected, whether or not modbus_connect opened the port, and has no
\* timers yet.
Init ==
    /\ s \in [Devices -> Fds \cup {-1}]
    /\ \A d \in TcpDevices : s[d] = -1
    /\ \A d, e \in Devices : d # e /\ s[d] # -1 => s[d] # s[e]
    /\ connected = [d \in Devices |-> d \notin TcpDevices]
    /\ owner = [f \in Fds |-> IF \E d \in Devices : s[d] = f
                                THEN CHOOSE d \in Devices : s[d] = f
                                ELSE NoOne]
    /\ link = [f \in Fds |-> IF \E d \in Devices : s[d] = f THEN "up" ELSE "none"]
    /\ pc = [d \in Devices |-> "idle"]
    /\ after = [d \in Devices |-> "op"]
    /\ task = [d \in Devices |-> NoTasks]
    /\ stale = [d \in Devices |-> [k \in Timers |-> 0]]

-----------------------------------------------------------------------------
(***************************************************************************)
(* The descriptor table (external: the kernel).                            *)
(***************************************************************************)
Free == {f \in Fds : owner[f] = NoOne}

\* socket() and open() return the lowest free descriptor.
OpenFd(d, state) ==
    \E f \in Free :
        /\ \A g \in Free : f <= g
        /\ owner' = [owner EXCEPT ![f] = d]
        /\ link' = [link EXCEPT ![f] = state]
        /\ s' = [s EXCEPT ![d] = f]

\* close() frees the descriptor with this number, whoever opened it.
CloseFd(f) ==
    IF f \in Fds
      THEN /\ owner' = [owner EXCEPT ![f] = NoOne]
           /\ link' = [link EXCEPT ![f] = "none"]
      ELSE UNCHANGED <<owner, link>>

LinkOf(d) == IF s[d] \in Fds THEN link[s[d]] ELSE "none"

-----------------------------------------------------------------------------
(***************************************************************************)
(* Timer tasks.                                                            *)
(***************************************************************************)
\* _...Task?.cancel() for the timers in K: a sleeping task ends, one whose
\* sleep is over stays in the queue.
Cancelled(d, K) ==
    [k \in Timers |-> stale[d][k] + (IF k \in K /\ task[d][k] = "woken" THEN 1 ELSE 0)]

\* startAutoReconnectTimer and startDisconnectWhenIdleTimer.
StartTimers(d, K) ==
    LET started == K \cap Armed
    IN  /\ task' = [task EXCEPT ![d] =
                       [k \in Timers |-> IF k \in started THEN "sleeping" ELSE task[d][k]]]
        /\ stale' = [stale EXCEPT ![d] = Cancelled(d, started)]

\* Task.sleep ends; the rest of the task is queued on the actor.
Wake(d, k) ==
    /\ task[d][k] = "sleeping"
    /\ stale[d][k] < MaxStale
    /\ task' = [task EXCEPT ![d][k] = "woken"]
    /\ UNCHANGED <<connected, s, owner, link, pc, after, stale>>

\* disconnect(), run by the task `self' of this device, by a cancelled one
\* (`self' = {}, `late' names its timer) or by the user (both empty).
Disconnect(d, self, late) ==
    LET tasks  == [k \in Timers |-> IF k \in self THEN "none" ELSE task[d][k]]
        queued == [k \in Timers |->
                      (IF k \in self THEN stale[d][k] ELSE Cancelled(d, Timers)[k])
                         - (IF k \in late THEN 1 ELSE 0)]
    IN  IF connected[d]
          THEN /\ CloseFd(s[d])
               /\ connected' = [connected EXCEPT ![d] = FALSE]
               /\ task' = [task EXCEPT ![d] = NoTasks]
               /\ stale' = [stale EXCEPT ![d] = queued]
               /\ UNCHANGED <<s, pc, after>>
          ELSE /\ task' = [task EXCEPT ![d] = tasks]
               /\ stale' = [stale EXCEPT ![d] =
                              [k \in Timers |-> stale[d][k] - (IF k \in late THEN 1 ELSE 0)]]
               /\ UNCHANGED <<connected, s, owner, link, pc, after>>

RunTask(d, k) ==
    /\ pc[d] = "idle"
    /\ task[d][k] = "woken"
    /\ Disconnect(d, {k}, {})

\* Mutant: a task may run again.
RunCancelledTask_Twice(d, k) ==
    /\ pc[d] = "idle"
    /\ Disconnect(d, {}, {k})

RunCancelledTask(d, k) ==
    /\ pc[d] = "idle"
    /\ stale[d][k] > 0
    /\ Disconnect(d, {}, {k})

\* Mutants: the timers are not cancelled; `connected' is not reset.
UserDisconnect_KeepsTimers(d) ==
    /\ UserDisconnects /\ pc[d] = "idle" /\ connected[d]
    /\ CloseFd(s[d])
    /\ connected' = [connected EXCEPT ![d] = FALSE]
    /\ UNCHANGED <<s, pc, after, task, stale>>

UserDisconnect_KeepsFlag(d) ==
    /\ UserDisconnects /\ pc[d] = "idle" /\ connected[d]
    /\ CloseFd(s[d])
    /\ UNCHANGED <<connected, s, pc, after, task, stale>>

UserDisconnect(d) ==
    /\ UserDisconnects
    /\ pc[d] = "idle"
    /\ Disconnect(d, {}, {})

-----------------------------------------------------------------------------
(***************************************************************************)
(* connect() and the operations.                                           *)
(***************************************************************************)
Goto(d, l) == pc' = [pc EXCEPT ![d] = l]

\* connect() of the actor: there is no guard on `connected'.
UserConnect(d) ==
    /\ pc[d] = "idle"
    /\ connected[d] => ConnectWhileConnected
    /\ Goto(d, "socket")
    /\ after' = [after EXCEPT ![d] = "user"]
    /\ UNCHANGED <<connected, s, owner, link, task, stale>>

\* Every read or write begins with connectWhenNeeded().
Operate(d) ==
    /\ pc[d] = "idle"
    /\ Goto(d, IF connected[d] THEN "call" ELSE "socket")
    /\ after' = [after EXCEPT ![d] = "op"]
    /\ UNCHANGED <<connected, s, owner, link, task, stale>>

\* modbus_connect returned 0.
ConnectSucceeds(d) ==
    \/ /\ after[d] \in {"user", "op"}
       /\ StartTimers(d, Timers)
       /\ connected' = [connected EXCEPT ![d] = TRUE]
       /\ Goto(d, IF after[d] = "op" THEN "call" ELSE "idle")
    \/ /\ after[d] = "resend"
       /\ Goto(d, "send")
       /\ UNCHANGED <<connected, task, stale>>
    \/ /\ after[d] = "giveup"
       /\ Goto(d, "end")
       /\ UNCHANGED <<connected, task, stale>>

\* modbus_connect returned -1: connect() throws, the recovery does not look.
ConnectFails(d) ==
    /\ Goto(d, CASE after[d] = "resend" -> "send"
                 [] after[d] = "giveup" -> "end"
                 [] OTHER -> "idle")
    /\ UNCHANGED <<connected, task, stale>>

\* First half of _modbus_tcp_connect: ctx->s is overwritten at once, with -1
\* when there is no socket to be had.
TcpSocket(d) ==
    /\ d \in TcpDevices
    /\ pc[d] = "socket"
    /\ \/ /\ OpenFd(d, "connecting")
          /\ Goto(d, "connecting")
          /\ UNCHANGED <<connected, task, stale>>
       \/ /\ s' = [s EXCEPT ![d] = -1]
          /\ ConnectFails(d)
          /\ UNCHANGED <<owner, link>>
    /\ UNCHANGED after

\* Second half: on failure the socket is closed and ctx->s keeps its number.
TcpConnectOk(d) ==
    /\ pc[d] = "connecting"
    /\ LinkOf(d) = "connecting"
    /\ link' = [link EXCEPT ![s[d]] = "up"]
    /\ ConnectSucceeds(d)
    /\ UNCHANGED <<s, owner, after>>

TcpConnectFails(d) ==
    /\ pc[d] = "connecting"
    /\ CloseFd(s[d])
    /\ ConnectFails(d)
    /\ UNCHANGED <<s, after>>

\* _modbus_rtu_connect: on failure ctx->s is -1.
RtuConnect(d) ==
    /\ d \notin TcpDevices
    /\ pc[d] = "socket"
    /\ \/ OpenFd(d, "up") /\ ConnectSucceeds(d)
       \/ /\ s' = [s EXCEPT ![d] = -1]
          /\ ConnectFails(d)
          /\ UNCHANGED <<owner, link>>
    /\ UNCHANGED after

\* The call of the library begins, or returns without sending: too many
\* values (EMBMDATA), or nothing to write.
CallLibrary(d) ==
    /\ pc[d] = "call"
    /\ \E l \in {"send", "end"} : Goto(d, l)
    /\ UNCHANGED <<connected, s, owner, link, after, task, stale>>

\* send() takes the request.  It does so on whatever is behind the number,
\* and once more when the peer has already closed.
SendOk(d) ==
    /\ pc[d] = "send"
    /\ LinkOf(d) \in {"up", "reset"}
    /\ Goto(d, "recv")
    /\ UNCHANGED <<connected, s, owner, link, after, task, stale>>

\* send() fails.  A TCP device has MODBUS_ERROR_RECOVERY_LINK and reconnects
\* (or, for an errno that is not the link's, sleeps and tries again, which
\* changes nothing here); an RTU device has no recovery and returns.
SendFails(d) ==
    /\ pc[d] = "send"
    /\ d \in TcpDevices => LinkOf(d) # "up"
    /\ IF d \in TcpDevices
         THEN Goto(d, "close") /\ after' = [after EXCEPT ![d] = "resend"]
         ELSE Goto(d, "end") /\ UNCHANGED after
    /\ UNCHANGED <<connected, s, owner, link, task, stale>>

\* send() takes only a part of the request: EMBBADDATA.
SendShort(d) ==
    /\ pc[d] = "send"
    /\ LinkOf(d) = "up"
    /\ Goto(d, "end")
    /\ UNCHANGED <<connected, s, owner, link, after, task, stale>>

\* The answer, a timeout or a frame that check_confirmation refuses: the call
\* returns, successfully or not.
RecvEnds(d) ==
    /\ pc[d] = "recv"
    /\ Goto(d, "end")
    /\ UNCHANGED <<connected, s, owner, link, after, task, stale>>

\* select or recv finds the connection closed.
RecvFindsClosed(d) ==
    /\ pc[d] = "recv"
    /\ d \in TcpDevices
    /\ LinkOf(d) # "up"
    /\ Goto(d, "close")
    /\ after' = [after EXCEPT ![d] = "giveup"]
    /\ UNCHANGED <<connected, s, owner, link, task, stale>>

\* Mutant: the recovery connects without closing first.
RecoveryClose_Skipped(d) ==
    /\ pc[d] = "close"
    /\ Goto(d, "socket")
    /\ UNCHANGED <<connected, s, owner, link, after, task, stale>>

\* modbus_close of the recovery; modbus_connect follows.
RecoveryClose(d) ==
    /\ pc[d] = "close"
    /\ CloseFd(s[d])
    /\ Goto(d, "socket")
    /\ UNCHANGED <<connected, s, after, task, stale>>

\* defer { startDisconnectWhenIdleTimer() }
EndOperation(d) ==
    /\ pc[d] = "end"
    /\ StartTimers(d, {"idle"})
    /\ Goto(d, "idle")
    /\ UNCHANGED <<connected, s, owner, link, after>>

\* The peer closes, the port is unplugged (external).
PeerGoes(f) ==
    /\ link[f] = "up"
    /\ link' = [link EXCEPT ![f] = "reset"]
    /\ UNCHANGED <<connected, s, owner, pc, after, task, stale>>

-----------------------------------------------------------------------------
LibraryStep(d) ==
    \/ TcpSocket(d) \/ TcpConnectOk(d) \/ TcpConnectFails(d) \/ RtuConnect(d)
    \/ CallLibrary(d) \/ SendOk(d) \/ SendShort(d) \/ SendFails(d)
    \/ RecvEnds(d) \/ RecvFindsClosed(d) \/ RecoveryClose(d) \/ EndOperation(d)

UserStep(d) == Operate(d) \/ UserConnect(d) \/ UserDisconnect(d)

TimerStep(d) == \E k \in Timers : Wake(d, k) \/ RunTask(d, k) \/ RunCancelledTask(d, k)

Next ==
    \/ \E d \in Devices : LibraryStep(d) \/ UserStep(d) \/ TimerStep(d)
    \/ \E f \in Fds : PeerGoes(f)

Spec == Init /\ [][Next]_vars

\* Jobs run on; a queued task gets its turn between two jobs, since the actor
\* serves its queue in order; the auto-reconnect timer ends, because nothing
\* but connect() starts it anew; the idle timer ends if no job comes.  The send
\* loop of the link recovery ends only with the help of the surroundings: now
\* and then there is a socket and a peer that accepts.
FairSpec ==
    /\ Spec
    /\ \A d \in Devices :
         /\ WF_vars(LibraryStep(d))
         /\ SF_vars(TcpSocket(d) /\ s'[d] # -1)
         /\ SF_vars(TcpConnectOk(d)) /\ SF_vars(SendOk(d))
         /\ WF_vars(Wake(d, "auto"))
         /\ WF_vars(pc[d] = "idle" /\ Wake(d, "idle"))
         /\ \A k \in Timers : SF_vars(RunTask(d, k)) /\ SF_vars(RunCancelledTask(d, k))

-----------------------------------------------------------------------------
(***************************************************************************)
(* Properties.                                                             *)
(***************************************************************************)
PCs == {"idle", "call", "socket", "connecting", "send", "recv", "close", "end"}

\* The type of the state of the devices and of the descriptor table.
TypeOK ==
    /\ connected \in [Devices -> BOOLEAN]
    /\ s \in [Devices -> Fds \cup {-1}]
    /\ owner \in [Fds -> Devices \cup {NoOne}]
    /\ link \in [Fds -> {"none", "connecting", "up", "reset"}]
    /\ pc \in [Devices -> PCs]
    /\ after \in [Devices -> {"user", "op", "resend", "giveup"}]
    /\ task \in [Devices -> [Timers -> {"none", "sleeping", "woken"}]]
    /\ stale \in [Devices -> [Timers -> 0 .. MaxStale]]

\* The states in which the next system call of a device is on ctx->s.
Uses(d) ==
    \/ pc[d] \in {"call", "connecting", "send", "recv", "close", "end"}
    \/ pc[d] = "idle" /\ connected[d]

\* A device only ever sends on, reads from and closes a descriptor that it
\* opened itself: no device's traffic or connection is touched by another's
\* reconnecting.
OwnSocket ==
    \A d \in Devices :
        Uses(d) /\ s[d] \in Fds => owner[s[d]] \in {d, NoOne}

\* No connection is left behind: a device at rest holds the one descriptor
\* that ctx->s names, and none at all while it says it is not connected (a
\* server would keep such a connection for ever).
NoLeak ==
    \A f \in Fds, d \in Devices :
        owner[f] = d => s[d] = f /\ (pc[d] = "idle" => connected[d])

\* A device that is not connected has no timer running that would close a
\* later connection before its time, and a connected TCP device at rest always
\* has the idle timer.  (An RTU device has none before its first operation.)
TimersFollowConnection ==
    \A d \in Devices : pc[d] = "idle" =>
        /\ ~connected[d] => \A k \in Timers : task[d][k] # "sleeping"
        /\ d \in TcpDevices /\ connected[d] /\ DisconnectWhenIdle
              => task[d]["idle"] # "none"

\* No connection gets older than autoReconnectAfter allows: each one is closed
\* some day, however busy the device is.
AgesOut == \A d \in Devices : connected[d] ~> ~connected[d]

\* A device that has been used and that nobody uses any more closes its
\* connection.
IdleCloses ==
    \A d \in Devices :
        <>(pc[d] # "idle") /\ <>[](pc[d] = "idle") => <>[](~connected[d])

\* Without a disconnect() of the user, a connection is closed only when one of
\* the device's present timers has run out: the time is over, or the device was
\* idle for that long.
OnlyTimersDisconnect ==
    [][\A d \in Devices : connected[d] /\ ~connected'[d]
          => \E k \in Timers : task[d][k] = "woken"]_vars
=============================================================================
