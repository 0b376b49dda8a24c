---------------------------- MODULE ModbusEndpoint ----------------------------
(***************************************************************************)
(* Descriptors and memory of a program that uses several contexts of       *)
(* libmodbus over TCP, as client and as server (modbus-tcp.c, modbus.c):   *)
(* creating and freeing a context, connecting over IPv4 (modbus_new_tcp)   *)
(* or over any protocol (modbus_new_tcp_pi), listening, accepting, and the *)
(* mapping of a server, with every system call failing.                    *)
(*                                                                         *)
(* A descriptor is a small number that the system gives out again as soon  *)
(* as it is closed, possibly to another part of the program.               *)
(***************************************************************************)
EXTENDS Integers, Sequences, SequencesExt, FiniteSets

CONSTANTS
    Contexts,       \* contexts the program may create
    Kinds,          \* how it creates them: "tcp", "tcp_pi"
    Reconnects,     \* kinds of contexts it connects anew after closing them
    ChecksSocket,   \* it accepts only while its socket is above 0
    MaxFd,          \* the highest descriptor
    MaxAddresses    \* the most addresses getaddrinfo returns

\* Who a descriptor belongs to, if no context.
Free == "free"
Other == "other"           \* another part of the program, which never fails
Listener == "listener"

ASSUME EndpointAssumption ==
    /\ Contexts \cap {Free, Other, Listener} = {}
    /\ Kinds \subseteq {"tcp", "tcp_pi"} /\ Reconnects \subseteq Kinds
    /\ ChecksSocket \in BOOLEAN
    /\ MaxFd \in Nat /\ MaxAddresses \in Nat \ {0}

VARIABLES
    descriptors,   \* who each open descriptor belongs to
    kind,          \* how each context was created
    s,             \* the field s of each context
    connected,     \* the program was told that the context is connected
    socket,        \* the listening socket, as the program knows it
    blocks         \* memory in use

vars == <<descriptors, kind, s, connected, socket, blocks>>

Fds == 0 .. MaxFd
None == "none"

Init ==
    /\ descriptors = [d \in Fds |-> IF d = 0 THEN Other ELSE Free]
    /\ kind = [c \in Contexts |-> None]
    /\ s = [c \in Contexts |-> -1]
    /\ connected = [c \in Contexts |-> FALSE]
    /\ socket = -1
    /\ blocks = {}

FreeFds(ds) == {d \in Fds : ds[d] = Free}
Lowest(D) == CHOOSE d \in D : \A e \in D : d <= e

-----------------------------------------------------------------------------
(***************************************************************************)
(* Contexts and mappings.                                                  *)
(***************************************************************************)
ContextBlocks(c) == {<<c, "modbus_t">>, <<c, "backend_data">>}

\* Mutant: only the context is freed.
modbus_free_Context(bs, c) == bs \ {<<c, "modbus_t">>}

modbus_free(bs, c) == bs \ ContextBlocks(c)

\* Mutant: the field s of a new context is 0.
New_Zero(c, k, ok) ==
    /\ kind[c] = None
    /\ kind' = [kind EXCEPT ![c] = IF ok THEN k ELSE None]
    /\ s' = [s EXCEPT ![c] = 0]
    /\ blocks' = IF ok THEN blocks \cup ContextBlocks(c) ELSE blocks
    /\ UNCHANGED <<descriptors, connected, socket>>

\* modbus_new_tcp and modbus_new_tcp_pi; `ok': no string is empty or too long.
New(c, k, ok) ==
    /\ kind[c] = None
    /\ kind' = [kind EXCEPT ![c] = IF ok THEN k ELSE None]
    /\ s' = [s EXCEPT ![c] = -1]
    /\ blocks' = IF ok THEN blocks \cup ContextBlocks(c)
                       ELSE modbus_free(blocks \cup ContextBlocks(c), c)
    /\ UNCHANGED <<descriptors, connected, socket>>

\* The program frees a context it has closed.
FreeContext(c) ==
    /\ kind[c] # None /\ ~connected[c]
    /\ kind' = [kind EXCEPT ![c] = None]
    /\ blocks' = modbus_free(blocks, c)
    /\ UNCHANGED <<descriptors, s, connected, socket>>

\* The blocks of a mapping in the order they are allocated.
MappingBlocks ==
    LET tables == <<"mapping", "bits", "input_bits", "registers", "input_registers">>
    IN  [i \in DOMAIN tables |-> <<"mapping", tables[i]>>]

\* modbus_mapping_new, of which the first k calls of malloc succeed.
NewMapping(k) ==
    LET got == {MappingBlocks[i] : i \in 1 .. k}
    IN  /\ MappingBlocks[1] \notin blocks
        /\ blocks' = (blocks \cup got) \ (IF k < Len(MappingBlocks) THEN got ELSE {})
        /\ UNCHANGED <<descriptors, kind, s, connected, socket>>

\* modbus_mapping_free
FreeMapping ==
    /\ MappingBlocks[1] \in blocks
    /\ blocks' = blocks \ {MappingBlocks[i] : i \in 1 .. Len(MappingBlocks)}
    /\ UNCHANGED <<descriptors, kind, s, connected, socket>>

-----------------------------------------------------------------------------
(***************************************************************************)
(* Connections.                                                            *)
(***************************************************************************)
\* What becomes of one address: no socket for it, or a later call (an option,
\* connect, bind or listen) fails or times out, or all succeed.
Outcomes == {"no_socket", "fails", "ok"}
Tries == UNION {[1 .. n -> Outcomes] : n \in 0 .. MaxAddresses}

\* Mutant: the socket of an address that fails stays open.
TryAddress_KeepOpen(found, outcome, owner) ==
    IF found.s >= 0 \/ outcome = "no_socket" \/ FreeFds(found.ds) = {}
      THEN found
      ELSE LET d == Lowest(FreeFds(found.ds))
           IN  [ds |-> [found.ds EXCEPT ![d] = owner],
                s  |-> IF outcome = "ok" THEN d ELSE -1]

\* One turn of the loop over the addresses.
TryAddress(found, outcome, owner) ==
    IF found.s >= 0 \/ outcome = "no_socket" \/ FreeFds(found.ds) = {}
      THEN found
      ELSE IF outcome = "fails" THEN [ds |-> found.ds, s |-> -1]
      ELSE LET d == Lowest(FreeFds(found.ds))
           IN  [ds |-> [found.ds EXCEPT ![d] = owner], s |-> d]

TryAll(tries, owner) ==
    FoldLeft(LAMBDA found, outcome : TryAddress(found, outcome, owner),
             [ds |-> descriptors, s |-> -1], tries)

\* The program connects a context of kind k that is new, or closed.
MayConnect(c, k) ==
    kind[c] = k /\ ~connected[c] /\ (k \in Reconnects \/ s[c] = -1)

\* Mutant: success is that the context has a descriptor.
ConnectTcp_Unclosed(c, outcome) ==
    LET found == TryAll(<<outcome>>, c)
    IN  /\ MayConnect(c, "tcp")
        /\ descriptors' = found.ds
        /\ s' = [s EXCEPT ![c] = IF found.s >= 0 THEN found.s ELSE @]
        /\ connected' = [connected EXCEPT ![c] = s'[c] >= 0]
        /\ UNCHANGED <<kind, socket, blocks>>

\* _modbus_tcp_connect: one address.  When it fails after the socket was made,
\* the number of the closed socket stays in the context.
ConnectTcp(c, outcome) ==
    LET found == TryAll(<<outcome>>, c)
    IN  /\ MayConnect(c, "tcp")
        /\ descriptors' = found.ds
        /\ s' = [s EXCEPT ![c] =
                    IF outcome = "no_socket" \/ FreeFds(descriptors) = {} THEN -1
                    ELSE Lowest(FreeFds(descriptors))]
        /\ connected' = [connected EXCEPT ![c] = found.s >= 0]
        /\ UNCHANGED <<kind, socket, blocks>>

\* _modbus_tcp_pi_connect: s is set by the address that succeeds, and success
\* is that s is no error code.  No tries: getaddrinfo fails.
ConnectPi(c, tries) ==
    LET found == TryAll(tries, c)
    IN  /\ MayConnect(c, "tcp_pi")
        /\ descriptors' = found.ds
        /\ s' = [s EXCEPT ![c] = IF found.s >= 0 THEN found.s ELSE @]
        /\ connected' = [connected EXCEPT ![c] = tries # <<>> /\ s'[c] >= 0]
        /\ UNCHANGED <<kind, socket, blocks>>

\* modbus_close, _modbus_tcp_close: s keeps its value.
Close(c) ==
    /\ connected[c]
    /\ descriptors' = [descriptors EXCEPT ![s[c]] = Free]
    /\ connected' = [connected EXCEPT ![c] = FALSE]
    /\ UNCHANGED <<kind, s, socket, blocks>>

-----------------------------------------------------------------------------
(***************************************************************************)
(* The server.                                                             *)
(***************************************************************************)
\* modbus_tcp_listen and modbus_tcp_pi_listen.
Listen(c, tries) ==
    LET found == TryAll(tries, Listener)
    IN  /\ socket <= 0 /\ kind[c] # None
        /\ kind[c] = "tcp" => Len(tries) = 1
        /\ descriptors' = found.ds
        /\ socket' = found.s
        /\ UNCHANGED <<kind, s, connected, blocks>>

\* The program accepts with a context it does not use.  The library does not
\* look at the socket before it calls accept.
MayAccept(c) ==
    kind[c] # None /\ ~connected[c] /\ (ChecksSocket => socket > 0)

AcceptOk(c) ==
    LET d == Lowest(FreeFds(descriptors))
    IN  /\ MayAccept(c)
        /\ socket \in Fds /\ descriptors[socket] = Listener
        /\ FreeFds(descriptors) # {}
        /\ descriptors' = [descriptors EXCEPT ![d] = c]
        /\ s' = [s EXCEPT ![c] = d]
        /\ connected' = [connected EXCEPT ![c] = TRUE]
        /\ UNCHANGED <<kind, socket, blocks>>

\* Mutant: what the context held before is closed as well.
AcceptFails_ClosesBoth(c) ==
    /\ MayAccept(c)
    /\ descriptors' = [d \in Fds |-> IF d \in {socket, s[c]} THEN Free ELSE descriptors[d]]
    /\ socket' = 0
    /\ s' = [s EXCEPT ![c] = -1]
    /\ UNCHANGED <<kind, connected, blocks>>

\* What the program's variable names is closed, whatever it is, and the variable
\* set to 0.  Accepting on that 0 fails again, and closes standard input.
AcceptFails(c) ==
    /\ MayAccept(c)
    /\ descriptors' = [d \in Fds |-> IF d = socket THEN Free ELSE descriptors[d]]
    /\ socket' = 0
    /\ s' = [s EXCEPT ![c] = -1]
    /\ UNCHANGED <<kind, connected, blocks>>

\* The program stops listening.
CloseListener ==
    /\ socket > 0
    /\ descriptors' = [descriptors EXCEPT ![socket] = Free]
    /\ socket' = -1
    /\ UNCHANGED <<kind, s, connected, blocks>>

-----------------------------------------------------------------------------
\* The rest of the program opens a file, or closes one of its own.
OtherOpens ==
    /\ FreeFds(descriptors) # {}
    /\ descriptors' = [descriptors EXCEPT ![Lowest(FreeFds(descriptors))] = Other]
    /\ UNCHANGED <<kind, s, connected, socket, blocks>>

OtherCloses(d) ==
    /\ d # 0 /\ descriptors[d] = Other
    /\ descriptors' = [descriptors EXCEPT ![d] = Free]
    /\ UNCHANGED <<kind, s, connected, socket, blocks>>

Next ==
    \/ \E c \in Contexts, k \in Kinds, ok \in BOOLEAN : New(c, k, ok)
    \/ \E c \in Contexts, tries \in Tries : ConnectPi(c, tries) \/ Listen(c, tries)
    \/ \E c \in Contexts, outcome \in Outcomes : ConnectTcp(c, outcome)
    \/ \E c \in Contexts : FreeContext(c) \/ Close(c) \/ AcceptOk(c) \/ AcceptFails(c)
    \/ CloseListener
    \/ \E k \in 0 .. Len(MappingBlocks) : NewMapping(k)
    \/ FreeMapping
    \/ OtherOpens
    \/ \E d \in Fds : OtherCloses(d)

Spec == Init /\ [][Next]_vars

-----------------------------------------------------------------------------
(***************************************************************************)
(* Properties.                                                             *)
(***************************************************************************)
\* The type of the state; while the program checks its socket, no context ever
\* holds the number of standard input.
TypeOK ==
    /\ descriptors \in [Fds -> Contexts \cup {Free, Other, Listener}]
    /\ kind \in [Contexts -> Kinds \cup {None}]
    /\ s \in [Contexts -> (Fds \ {0}) \cup {-1}]
    /\ connected \in [Contexts -> BOOLEAN]
    /\ socket \in Fds \cup {-1}

\* After a call that fails half-way nothing is left behind: every descriptor
\* the library opened is one the program can still close, and every block of
\* memory belongs to a context or a mapping the program can still free.
NothingLost ==
    /\ \A d \in Fds :
          /\ descriptors[d] \in Contexts =>
                connected[descriptors[d]] /\ s[descriptors[d]] = d
          /\ descriptors[d] = Listener => socket = d
    /\ \A c \in Contexts : kind[c] = None => ContextBlocks(c) \cap blocks = {}
    /\ MappingBlocks[1] \notin blocks =>
          \A i \in 1 .. Len(MappingBlocks) : MappingBlocks[i] \notin blocks

\* A context of which modbus_connect or accept said that it is connected is:
\* its descriptor is open and its own, not a number closed long ago that by now
\* means something else.
ConnectTruthful ==
    \A c \in Contexts : connected[c] => s[c] \in Fds /\ descriptors[s[c]] = c

\* No call of the library closes a descriptor of the rest of the program.  For
\* a program that accepts again after a failed accept, on the 0 that is left in
\* its variable, this is false of standard input (ChecksSocket = FALSE).
OthersStay ==
    [][\A d \in Fds : descriptors[d] = Other /\ descriptors'[d] # Other
                        => OtherCloses(d)]_vars
=============================================================================
