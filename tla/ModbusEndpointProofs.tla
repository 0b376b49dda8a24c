------------------------- MODULE ModbusEndpointProofs -------------------------
(***************************************************************************)
(* Descriptors and memory of any number of contexts, for any number of     *)
(* descriptors and addresses: nothing is lost, a connected context owns    *)
(* its descriptor, and no call closes what belongs to others.              *)
(***************************************************************************)
EXTENDS ModbusEndpoint, WellFoundedInduction, TLAPS

(***************************************************************************)
(* The loop over the addresses.                                            *)
(***************************************************************************)
\* The natural numbers are well ordered.
LEMMA Least ==
    ASSUME NEW T, T \subseteq Nat, T # {}
    PROVE  \E x \in T : \A y \in T : x <= y
<1> DEFINE R == OpToRel(<, Nat)
<1>1. IsWellFoundedOn(R, Nat)
  BY NatLessThanWellFounded
<1>2. \A x, y \in Nat : y < x => <<y, x>> \in R
  BY DEF OpToRel
<1> HIDE DEF R
<1>3. PICK x \in T : \A y \in T : ~(<<y, x>> \in R)
  BY <1>1, WFMin
<1>4. ASSUME NEW y \in T PROVE x <= y
  <2>1. x \in Nat /\ y \in Nat
    OBVIOUS
  <2>2. ~(y < x)
    BY <1>2, <1>3, <2>1
  <2> QED
    BY <2>1, <2>2
<1> QED
  BY <1>4

LEMMA LowestIs ==
    ASSUME NEW D \in SUBSET Nat, D # {}
    PROVE  Lowest(D) \in D
BY Least DEF Lowest

\* The fold takes the indices of a sequence from the last to the first.
LEMMA MaxIs ==
    ASSUME NEW n \in Nat, NEW X \in SUBSET (1 .. n), X # {}
    PROVE  Max(X) \in X /\ \A y \in X : Max(X) >= y
<1> DEFINE T == {n - x : x \in X}
<1>1. T \subseteq Nat /\ T # {}
  <2>1. \A x \in X : n - x \in Nat
    OBVIOUS
  <2> QED
    BY <2>1
<1>2. PICK t \in T : \A y \in T : t <= y
  BY <1>1, Least
<1>3. PICK x \in X : t = n - x
  OBVIOUS
<1>4. ASSUME NEW y \in X PROVE x >= y
  <2>1. n - y \in T
    OBVIOUS
  <2>2. n - x <= n - y
    BY <1>2, <1>3, <2>1
  <2> QED
    BY <2>2
<1> QED
  BY <1>4 DEF Max

\* What the loop leaves: the lowest free descriptor once one of the addresses
\* succeeded, and everything as it was otherwise.
Found(succeeded, owner) ==
    IF succeeded # {} /\ FreeFds(descriptors) # {}
      THEN [ds |-> [descriptors EXCEPT ![Lowest(FreeFds(descriptors))] = owner],
            s  |-> Lowest(FreeFds(descriptors))]
      ELSE [ds |-> descriptors, s |-> -1]

LEMMA LowestFree ==
    ASSUME FreeFds(descriptors) # {}
    PROVE  /\ Lowest(FreeFds(descriptors)) \in Fds
           /\ descriptors[Lowest(FreeFds(descriptors))] = Free
<1>1. FreeFds(descriptors) \in SUBSET Nat
  BY EndpointAssumption DEF FreeFds, Fds
<1> QED
  BY <1>1, LowestIs DEF FreeFds

\* One turn of the loop, from what the turns before it leave.
LEMMA OneTurn ==
    ASSUME NEW before, NEW after, NEW outcome \in Outcomes, NEW owner,
           after = {} <=> before = {} /\ outcome # "ok"
    PROVE  TryAddress(Found(before, owner), outcome, owner) = Found(after, owner)
<1>1. FreeFds(descriptors) # {} => Lowest(FreeFds(descriptors)) >= 0
  BY LowestFree, EndpointAssumption DEF Fds
<1>2. CASE before # {} /\ FreeFds(descriptors) # {}
  BY <1>1, <1>2 DEF TryAddress, Found
<1>3. CASE ~(before # {} /\ FreeFds(descriptors) # {})
  <2>1. Found(before, owner) = [ds |-> descriptors, s |-> -1]
    BY <1>3 DEF Found
  <2> QED
    BY <1>1, <1>3, <2>1 DEF TryAddress, Found, Outcomes
<1> QED
  BY <1>2, <1>3

LEMMA TryAllFinds ==
    ASSUME NEW n \in Nat, NEW tries \in [1 .. n -> Outcomes], NEW owner
    PROVE  TryAll(tries, owner) = Found({i \in 1 .. n : tries[i] = "ok"}, owner)
<1> DEFINE base == [ds |-> descriptors, s |-> -1]
           Succeed(X) == {i \in X : tries[i] = "ok"}
           Turn(f, X) == IF X = {} THEN base
                         ELSE TryAddress(f[X \ {Max(X)}], tries[Max(X)], owner)
           g == [X \in SUBSET (1 .. n) |-> Found(Succeed(X), owner)]
           iter == CHOOSE f : f = [X \in SUBSET (1 .. n) |-> Turn(f, X)]
<1>1. TryAll(tries, owner) = iter[1 .. n]
  BY DEF TryAll, FoldLeft, MapThenFoldSet
<1>2. ASSUME NEW X \in SUBSET (1 .. n)
      PROVE  Found(Succeed(X), owner) = Turn(g, X)
  <2>1. CASE X = {}
    BY <2>1 DEF Found
  <2>2. CASE X # {}
    <3>1. /\ Max(X) \in X
          /\ tries[Max(X)] \in Outcomes
      BY <2>2, MaxIs
    <3>2. Succeed(X) = {} <=> Succeed(X \ {Max(X)}) = {} /\ tries[Max(X)] # "ok"
      BY <3>1
    <3>3. g[X \ {Max(X)}] = Found(Succeed(X \ {Max(X)}), owner)
      OBVIOUS
    <3> DEFINE before == Succeed(X \ {Max(X)})
               after == Succeed(X)
               outcome == tries[Max(X)]
    <3> HIDE DEF Succeed, g, before, after, outcome
    <3>4. TryAddress(Found(before, owner), outcome, owner) = Found(after, owner)
      <4>1. outcome \in Outcomes /\ (after = {} <=> before = {} /\ outcome # "ok")
        BY <3>1, <3>2 DEF before, after, outcome
      <4> QED
        BY <4>1, OneTurn
    <3>5. TryAddress(g[X \ {Max(X)}], tries[Max(X)], owner) = Found(Succeed(X), owner)
      BY <3>3, <3>4 DEF before, after, outcome
    <3> QED
      BY <2>2, <3>5
  <2> QED
    BY <2>1, <2>2
<1>3. g = [X \in SUBSET (1 .. n) |-> Turn(g, X)]
  BY <1>2
<1>4. iter = [X \in SUBSET (1 .. n) |-> Turn(iter, X)]
  <2> HIDE DEF Turn, g
  <2> QED
    BY <1>3
<1> DEFINE Wrong == {i \in 0 .. n : iter[1 .. i] # g[1 .. i]}
<1>5. Wrong = {}
  <2> HIDE DEF iter, g
  <2> SUFFICES ASSUME Wrong # {} PROVE FALSE
    OBVIOUS
  <2>1. PICK i \in Wrong : \A j \in Wrong : i <= j
    <3>1. Wrong \subseteq Nat
      OBVIOUS
    <3> HIDE DEF Wrong
    <3> QED
      BY <3>1, Least
  <2>2. 1 .. i \in SUBSET (1 .. n)
    OBVIOUS
  <2>3. iter[1 .. i] = Turn(iter, 1 .. i) /\ g[1 .. i] = Turn(g, 1 .. i)
    <3> HIDE DEF Turn
    <3> QED
      BY <1>3, <1>4, <2>2
  <2>4. CASE i = 0
    BY <2>3, <2>4
  <2>5. CASE i > 0
    <3>1. Max(1 .. i) = i
      <4>1. i \in Nat /\ 1 .. i # {} /\ i \in 1 .. i /\ 1 .. i \in SUBSET (1 .. i)
        BY <2>5
      <4>2. Max(1 .. i) \in 1 .. i /\ Max(1 .. i) >= i
        BY <4>1, MaxIs
      <4> QED
        BY <4>1, <4>2
    <3>2. (1 .. i) \ {i} = 1 .. (i - 1) /\ 1 .. i # {}
      BY <2>5
    <3>3. i - 1 \notin Wrong /\ i - 1 \in 0 .. n
      BY <2>1, <2>5
    <3>4. iter[1 .. (i - 1)] = g[1 .. (i - 1)]
      BY <3>3
    <3> QED
      BY <2>3, <3>1, <3>2, <3>4
  <2> QED
    BY <2>4, <2>5
<1>6. iter[1 .. n] = g[1 .. n]
  <2> HIDE DEF iter, g
  <2>1. n \notin Wrong /\ n \in 0 .. n
    BY <1>5
  <2> QED
    BY <2>1
<1> QED
  BY <1>1, <1>6

LEMMA Tried ==
    ASSUME NEW tries \in Tries, NEW owner
    PROVE  LET found == TryAll(tries, owner)
           IN  \/ found.s = -1 /\ found.ds = descriptors
               \/ \E d \in Fds : /\ descriptors[d] = Free
                                /\ FreeFds(descriptors) # {}
                                /\ d = Lowest(FreeFds(descriptors))
                                /\ found.s = d
                                /\ found.ds = [descriptors EXCEPT ![d] = owner]
<1>1. PICK n \in Nat : tries \in [1 .. n -> Outcomes]
  BY EndpointAssumption DEF Tries
<1> DEFINE succeeded == {i \in 1 .. n : tries[i] = "ok"}
<1> HIDE DEF succeeded
<1>2. TryAll(tries, owner) = Found(succeeded, owner)
  BY <1>1, TryAllFinds DEF succeeded
<1>3. CASE succeeded # {} /\ FreeFds(descriptors) # {}
  <2> DEFINE d == Lowest(FreeFds(descriptors))
  <2>1. TryAll(tries, owner) = [ds |-> [descriptors EXCEPT ![d] = owner], s |-> d]
    BY <1>2, <1>3 DEF Found
  <2>2. /\ d \in Fds /\ descriptors[d] = Free
        /\ TryAll(tries, owner).s = d
        /\ TryAll(tries, owner).ds = [descriptors EXCEPT ![d] = owner]
    BY <1>3, <2>1, LowestFree
  <2> QED
    BY <1>3, <2>2, Zenon
<1>4. CASE ~(succeeded # {} /\ FreeFds(descriptors) # {})
  BY <1>2, <1>4 DEF Found
<1> QED
  BY <1>3, <1>4

LEMMA OneTry == \A outcome \in Outcomes : <<outcome>> \in Tries
<1> SUFFICES ASSUME NEW outcome \in Outcomes
             PROVE  <<outcome>> \in Tries
  OBVIOUS
<1>1. 1 \in 0 .. MaxAddresses /\ <<outcome>> \in [1 .. 1 -> Outcomes]
  BY EndpointAssumption
<1> QED
  BY <1>1 DEF Tries

-----------------------------------------------------------------------------
(***************************************************************************)
(* The invariant.                                                          *)
(***************************************************************************)
\* The field s of a modbus_new_tcp_pi context that was closed looks like that of
\* one that is connected: such a context is not connected anew.
PiOnce == "tcp_pi" \notin Reconnects

\* Whose the descriptors are, as long as ChecksSocket keeps the program from
\* accepting on the 0 that a failed accept leaves in its variable: standard
\* input never is the library's, the program's variable names the listening
\* socket, and what is connected exists.
FdInv ==
    /\ TypeOK
    /\ ConnectTruthful
    /\ \A d \in Fds :
          /\ descriptors[d] \in Contexts =>
                connected[descriptors[d]] /\ s[descriptors[d]] = d
          /\ descriptors[d] = Listener => socket = d
    /\ descriptors[0] = Other
    /\ socket > 0 => descriptors[socket] = Listener
    /\ \A c \in Contexts : connected[c] => kind[c] # None

\* Whose the blocks of memory are.
MemInv ==
    /\ \A c \in Contexts : kind[c] = None => ContextBlocks(c) \cap blocks = {}
    /\ MappingBlocks[1] \notin blocks =>
          \A i \in 1 .. Len(MappingBlocks) : MappingBlocks[i] \notin blocks

OthersKept == \A d \in Fds : descriptors[d] = Other => descriptors'[d] = Other

LEMMA Names ==
    /\ Free \notin Contexts /\ Other \notin Contexts /\ Listener \notin Contexts
    /\ Free # Other /\ Free # Listener /\ Other # Listener
    /\ None \notin Kinds /\ 0 \in Fds /\ -1 \notin Fds
    /\ Fds \subseteq Nat
BY EndpointAssumption DEF Free, Other, Listener, None, Fds

LEMMA InitFdInv == Init => FdInv
<1> SUFFICES ASSUME Init PROVE FdInv
  OBVIOUS
<1> QED
  BY Names DEF Init, FdInv, TypeOK, ConnectTruthful, Fds

LEMMA NewFdInv ==
    ASSUME FdInv, NEW c \in Contexts, NEW k \in Kinds, NEW ok \in BOOLEAN, New(c, k, ok)
    PROVE  FdInv' /\ OthersKept
<1>1. ~connected[c]
  BY DEF FdInv, New
<1> QED
  BY <1>1, Names DEF FdInv, New, TypeOK, ConnectTruthful, OthersKept

LEMMA FreeFdInv ==
    ASSUME FdInv, NEW c \in Contexts, FreeContext(c)
    PROVE  FdInv' /\ OthersKept
BY Names DEF FdInv, FreeContext, TypeOK, ConnectTruthful, OthersKept

LEMMA MappingFdInv ==
    ASSUME FdInv, FreeMapping \/ \E k \in 0 .. Len(MappingBlocks) : NewMapping(k)
    PROVE  FdInv' /\ OthersKept
<1>1. UNCHANGED <<descriptors, kind, s, connected, socket>>
  BY DEF FreeMapping, NewMapping
<1> QED
  BY <1>1, Names DEF FdInv, TypeOK, ConnectTruthful, OthersKept

LEMMA ConnectTcpFdInv ==
    ASSUME FdInv, NEW c \in Contexts, NEW outcome \in Outcomes, ConnectTcp(c, outcome)
    PROVE  FdInv' /\ OthersKept
<1> DEFINE found == TryAll(<<outcome>>, c)
           d == Lowest(FreeFds(descriptors))
<1>1. /\ ~connected[c] /\ kind[c] # None
      /\ \A e \in Fds : descriptors[e] # c
  BY Names DEF ConnectTcp, MayConnect, FdInv, None
<1>2. \/ found.s = -1 /\ found.ds = descriptors
      \/ /\ d \in Fds /\ descriptors[d] = Free /\ FreeFds(descriptors) # {}
         /\ found.s = d /\ found.ds = [descriptors EXCEPT ![d] = c]
  <2>1. <<outcome>> \in Tries
    BY OneTry
  <2> QED
    BY <2>1, Tried
<1>3. FreeFds(descriptors) # {} => d \in Fds \ {0}
  BY LowestFree, Names DEF FdInv
<1>4. /\ descriptors' = found.ds /\ connected' = [connected EXCEPT ![c] = found.s >= 0]
      /\ s' = [s EXCEPT ![c] = IF outcome = "no_socket" \/ FreeFds(descriptors) = {}
                                 THEN -1 ELSE d]
      /\ UNCHANGED <<kind, socket>>
  BY DEF ConnectTcp
<1>5. found.s >= 0 => outcome # "no_socket"
  <2>1. <<outcome>> \in [1 .. 1 -> Outcomes]
    OBVIOUS
  <2>2. found = Found({i \in 1 .. 1 : <<outcome>>[i] = "ok"}, c)
    BY <2>1, TryAllFinds
  <2>3. CASE outcome = "no_socket"
    <3>1. {i \in 1 .. 1 : <<outcome>>[i] = "ok"} = {}
      BY <2>3
    <3> QED
      BY <2>2, <3>1 DEF Found
  <2> QED
    BY <2>3
<1> HIDE DEF found, d
<1>6. CASE found.s = -1 /\ found.ds = descriptors
  BY <1>1, <1>3, <1>4, <1>6, Names DEF FdInv, TypeOK, ConnectTruthful, OthersKept
<1>7. CASE /\ d \in Fds /\ descriptors[d] = Free /\ FreeFds(descriptors) # {}
           /\ found.s = d /\ found.ds = [descriptors EXCEPT ![d] = c]
  <2>1. d \in Fds \ {0} /\ d >= 0
    BY <1>3, <1>7, Names
  <2>2. s' = [s EXCEPT ![c] = d] /\ connected' = [connected EXCEPT ![c] = TRUE]
    BY <1>4, <1>5, <1>7, <2>1
  <2> QED
    BY <1>1, <1>4, <1>7, <2>1, <2>2, Names DEF FdInv, TypeOK, ConnectTruthful, OthersKept
<1> QED
  BY <1>2, <1>6, <1>7

LEMMA ConnectPiFdInv ==
    ASSUME PiOnce, FdInv, NEW c \in Contexts, NEW tries \in Tries, ConnectPi(c, tries)
    PROVE  FdInv' /\ OthersKept
<1> DEFINE found == TryAll(tries, c)
<1>1. /\ ~connected[c] /\ kind[c] # None /\ s[c] = -1
      /\ \A e \in Fds : descriptors[e] # c
  BY Names DEF PiOnce, ConnectPi, MayConnect, FdInv, None
<1>2. \/ found.s = -1 /\ found.ds = descriptors
      \/ \E d \in Fds : /\ descriptors[d] = Free
                       /\ found.s = d /\ found.ds = [descriptors EXCEPT ![d] = c]
  BY Tried
<1>3. /\ descriptors' = found.ds
      /\ s' = [s EXCEPT ![c] = IF found.s >= 0 THEN found.s ELSE @]
      /\ connected' = [connected EXCEPT ![c] = tries # <<>> /\ s'[c] >= 0]
      /\ UNCHANGED <<kind, socket>>
  BY DEF ConnectPi
<1>4. found.s >= 0 => tries # <<>>
  <2>1. CASE tries = <<>>
    <3>1. 0 \in Nat /\ tries \in [1 .. 0 -> Outcomes]
      BY <2>1
    <3>2. found = Found({i \in 1 .. 0 : tries[i] = "ok"}, c)
      BY <3>1, TryAllFinds
    <3>3. {i \in 1 .. 0 : tries[i] = "ok"} = {}
      OBVIOUS
    <3> QED
      BY <3>2, <3>3 DEF Found
  <2> QED
    BY <2>1
<1> HIDE DEF found
<1>5. CASE found.s = -1 /\ found.ds = descriptors
  <2>1. s' = s /\ connected' = connected
    BY <1>1, <1>3, <1>5 DEF FdInv, TypeOK
  <2> QED
    BY <1>3, <1>5, <2>1 DEF FdInv, TypeOK, ConnectTruthful, OthersKept
<1>6. ASSUME NEW d \in Fds, descriptors[d] = Free,
             found.s = d, found.ds = [descriptors EXCEPT ![d] = c]
      PROVE  FdInv' /\ OthersKept
  <2>1. d \in Fds \ {0} /\ d >= 0
    BY <1>6, Names DEF FdInv
  <2>2. s' = [s EXCEPT ![c] = d] /\ connected' = [connected EXCEPT ![c] = TRUE]
    BY <1>3, <1>4, <1>6, <2>1 DEF FdInv, TypeOK
  <2> QED
    BY <1>1, <1>3, <1>6, <2>1, <2>2, Names DEF FdInv, TypeOK, ConnectTruthful, OthersKept
<1> QED
  BY <1>2, <1>5, <1>6

LEMMA CloseFdInv ==
    ASSUME FdInv, NEW c \in Contexts, Close(c)
    PROVE  FdInv' /\ OthersKept
<1>1. s[c] \in Fds /\ descriptors[s[c]] = c /\ s[c] # 0
  BY Names DEF FdInv, Close, ConnectTruthful, TypeOK
<1> QED
  BY <1>1, Names DEF FdInv, Close, TypeOK, ConnectTruthful, OthersKept

LEMMA ListenFdInv ==
    ASSUME FdInv, NEW c \in Contexts, NEW tries \in Tries, Listen(c, tries)
    PROVE  FdInv' /\ OthersKept
<1> DEFINE found == TryAll(tries, Listener)
<1>1. \A e \in Fds : descriptors[e] # Listener
  BY Names DEF Listen, FdInv
<1>2. \/ found.s = -1 /\ found.ds = descriptors
      \/ \E d \in Fds : /\ descriptors[d] = Free
                       /\ found.s = d /\ found.ds = [descriptors EXCEPT ![d] = Listener]
  BY Tried
<1>3. /\ descriptors' = found.ds /\ socket' = found.s
      /\ UNCHANGED <<kind, s, connected>>
  BY DEF Listen
<1> HIDE DEF found
<1>4. CASE found.s = -1 /\ found.ds = descriptors
  BY <1>1, <1>3, <1>4 DEF FdInv, TypeOK, ConnectTruthful, OthersKept
<1>5. ASSUME NEW d \in Fds, descriptors[d] = Free,
             found.s = d, found.ds = [descriptors EXCEPT ![d] = Listener]
      PROVE  FdInv' /\ OthersKept
  BY <1>1, <1>3, <1>5, Names DEF FdInv, TypeOK, ConnectTruthful, OthersKept
<1> QED
  BY <1>2, <1>4, <1>5

LEMMA AcceptOkFdInv ==
    ASSUME FdInv, NEW c \in Contexts, AcceptOk(c)
    PROVE  FdInv' /\ OthersKept
<1> DEFINE d == Lowest(FreeFds(descriptors))
<1>1. d \in Fds \ {0} /\ descriptors[d] = Free
  BY LowestFree, Names DEF AcceptOk, FdInv
<1>2. /\ ~connected[c] /\ kind[c] # None
      /\ \A e \in Fds : descriptors[e] # c
  BY DEF AcceptOk, MayAccept, FdInv
<1>3. /\ descriptors' = [descriptors EXCEPT ![d] = c] /\ s' = [s EXCEPT ![c] = d]
      /\ connected' = [connected EXCEPT ![c] = TRUE] /\ UNCHANGED <<kind, socket>>
  BY DEF AcceptOk
<1> HIDE DEF d
<1> QED
  BY <1>1, <1>2, <1>3, Names DEF FdInv, TypeOK, ConnectTruthful, OthersKept

LEMMA AcceptFailsFdInv ==
    ASSUME ChecksSocket, FdInv, NEW c \in Contexts, AcceptFails(c)
    PROVE  FdInv' /\ OthersKept
<1>1. socket \in Fds \ {0} /\ descriptors[socket] = Listener
  BY DEF AcceptFails, MayAccept, FdInv, TypeOK
<1>2. descriptors' = [descriptors EXCEPT ![socket] = Free]
  BY <1>1 DEF AcceptFails, FdInv, TypeOK
<1>3. /\ ~connected[c] /\ socket' = 0 /\ s' = [s EXCEPT ![c] = -1]
      /\ UNCHANGED <<kind, connected>>
  BY DEF AcceptFails, MayAccept
<1> QED
  BY <1>1, <1>2, <1>3, Names DEF FdInv, TypeOK, ConnectTruthful, OthersKept

LEMMA CloseListenerFdInv ==
    ASSUME FdInv, CloseListener
    PROVE  FdInv' /\ OthersKept
<1>1. socket \in Fds \ {0} /\ descriptors[socket] = Listener
  BY DEF CloseListener, FdInv, TypeOK
<1> QED
  BY <1>1, Names DEF FdInv, CloseListener, TypeOK, ConnectTruthful, OthersKept

LEMMA OtherOpensFdInv ==
    ASSUME FdInv, OtherOpens
    PROVE  FdInv' /\ OthersKept
<1> DEFINE d == Lowest(FreeFds(descriptors))
<1>1. d \in Fds /\ descriptors[d] = Free
  BY LowestFree DEF OtherOpens
<1>2. descriptors' = [descriptors EXCEPT ![d] = Other] /\ UNCHANGED <<kind, s, connected, socket>>
  BY DEF OtherOpens
<1> HIDE DEF d
<1> QED
  BY <1>1, <1>2, Names DEF FdInv, TypeOK, ConnectTruthful, OthersKept

LEMMA OtherClosesFdInv ==
    ASSUME FdInv, NEW d \in Fds, OtherCloses(d)
    PROVE  FdInv'
BY Names DEF FdInv, OtherCloses, TypeOK, ConnectTruthful

LEMMA NextFdInv ==
    ASSUME PiOnce, ChecksSocket, FdInv, Next
    PROVE  FdInv' /\ (OthersKept \/ \E d \in Fds : OtherCloses(d))
<1>1. CASE \E c \in Contexts, k \in Kinds, ok \in BOOLEAN : New(c, k, ok)
  BY <1>1, NewFdInv
<1>2. CASE \E c \in Contexts, tries \in Tries : ConnectPi(c, tries) \/ Listen(c, tries)
  BY <1>2, ConnectPiFdInv, ListenFdInv
<1>3. CASE \E c \in Contexts, outcome \in Outcomes : ConnectTcp(c, outcome)
  BY <1>3, ConnectTcpFdInv
<1>4. CASE \E c \in Contexts :
              FreeContext(c) \/ Close(c) \/ AcceptOk(c) \/ AcceptFails(c)
  BY <1>4, FreeFdInv, CloseFdInv, AcceptOkFdInv, AcceptFailsFdInv
<1>5. CASE CloseListener
  BY <1>5, CloseListenerFdInv
<1>6. CASE FreeMapping \/ \E k \in 0 .. Len(MappingBlocks) : NewMapping(k)
  BY <1>6, MappingFdInv
<1>7. CASE OtherOpens
  BY <1>7, OtherOpensFdInv
<1>8. CASE \E d \in Fds : OtherCloses(d)
  BY <1>8, OtherClosesFdInv
<1> QED
  BY <1>1, <1>2, <1>3, <1>4, <1>5, <1>6, <1>7, <1>8 DEF Next

\* The blocks of a mapping are five, and no context has one of them.
LEMMA Blocks ==
    /\ Len(MappingBlocks) = 5
    /\ \A i \in 1 .. 5 : \A c \in Contexts : MappingBlocks[i] \notin ContextBlocks(c)
<1>1. /\ MappingBlocks = <<MappingBlocks[1], MappingBlocks[2], MappingBlocks[3],
                          MappingBlocks[4], MappingBlocks[5]>>
      /\ MappingBlocks[1] = <<"mapping", "mapping">>
      /\ MappingBlocks[2] = <<"mapping", "bits">>
      /\ MappingBlocks[3] = <<"mapping", "input_bits">>
      /\ MappingBlocks[4] = <<"mapping", "registers">>
      /\ MappingBlocks[5] = <<"mapping", "input_registers">>
  BY DEF MappingBlocks
<1>2. Len(MappingBlocks) = 5
  BY <1>1
<1>3. \A i \in 1 .. 5 : MappingBlocks[i][2] \notin {"modbus_t", "backend_data"}
  <2>1. \A i \in 1 .. 5 : i = 1 \/ i = 2 \/ i = 3 \/ i = 4 \/ i = 5
    OBVIOUS
  <2> QED
    BY <1>1, <2>1
<1>4. \A c \in Contexts : \A b \in ContextBlocks(c) : b[2] \in {"modbus_t", "backend_data"}
  BY DEF ContextBlocks
<1> QED
  BY <1>2, <1>3, <1>4

LEMMA OwnBlocks ==
    \A c, d \in Contexts : c # d => ContextBlocks(c) \cap ContextBlocks(d) = {}
BY DEF ContextBlocks

\* Every step keeps the blocks, or is about those of one context or of the mapping.
LEMMA NextMemInv ==
    ASSUME kind \in [Contexts -> Kinds \cup {None}], MemInv, Next
    PROVE  MemInv'
<1> DEFINE Mapped(i) == MappingBlocks[i]
<1>1. ASSUME UNCHANGED <<kind, blocks>> PROVE MemInv'
  BY <1>1 DEF MemInv
<1>2. ASSUME NEW c \in Contexts, NEW k \in Kinds, NEW ok \in BOOLEAN, New(c, k, ok)
      PROVE  MemInv'
  <2>1. CASE ok
    <3>1. kind' = [kind EXCEPT ![c] = k] /\ blocks' = blocks \cup ContextBlocks(c)
      BY <1>2, <2>1 DEF New
    <3>2. kind'[c] # None
      BY <3>1, Names
    <3>3. \A d \in Contexts : kind'[d] = None => d # c /\ kind[d] = None
      BY <3>1, <3>2
    <3>4. \A d \in Contexts : kind'[d] = None => ContextBlocks(d) \cap blocks' = {}
      BY <3>1, <3>3, OwnBlocks DEF MemInv
    <3>5. \A i \in 1 .. 5 : MappingBlocks[i] \in blocks' <=> MappingBlocks[i] \in blocks
      BY <3>1, Blocks
    <3> QED
      BY <3>4, <3>5, Blocks DEF MemInv
  <2>2. CASE ~ok
    <3>1. /\ kind' = [kind EXCEPT ![c] = None]
          /\ blocks' = (blocks \cup ContextBlocks(c)) \ ContextBlocks(c)
      BY <1>2, <2>2 DEF New, modbus_free
    <3>2. \A d \in Contexts : ContextBlocks(d) \cap blocks' \subseteq ContextBlocks(d) \cap blocks
      BY <3>1
    <3>3. ContextBlocks(c) \cap blocks' = {}
      BY <3>1
    <3>4. \A d \in Contexts : kind'[d] = None => d = c \/ kind[d] = None
      BY <3>1
    <3>5. \A i \in 1 .. 5 : MappingBlocks[i] \in blocks' <=> MappingBlocks[i] \in blocks
      BY <3>1, Blocks
    <3> QED
      BY <3>2, <3>3, <3>4, <3>5, Blocks DEF MemInv
  <2> QED
    BY <2>1, <2>2
<1>3. ASSUME NEW c \in Contexts, FreeContext(c) PROVE MemInv'
  <2>1. kind' = [kind EXCEPT ![c] = None] /\ blocks' = blocks \ ContextBlocks(c)
    BY <1>3 DEF FreeContext, modbus_free
  <2>2. \A d \in Contexts : kind'[d] = None => d = c \/ kind[d] = None
    BY <2>1
  <2>3. \A i \in 1 .. 5 : MappingBlocks[i] \in blocks' <=> MappingBlocks[i] \in blocks
    BY <2>1, Blocks
  <2> QED
    BY <2>1, <2>2, <2>3, Blocks DEF MemInv
<1>4. ASSUME NEW k \in 0 .. Len(MappingBlocks), NewMapping(k) PROVE MemInv'
  <2> DEFINE got == {MappingBlocks[i] : i \in 1 .. k}
  <2>1. /\ k \in 0 .. 5 /\ MappingBlocks[1] \notin blocks /\ kind' = kind
        /\ blocks' = (blocks \cup got) \ (IF k < 5 THEN got ELSE {})
    BY <1>4, Blocks DEF NewMapping
  <2>2. \A c \in Contexts : ContextBlocks(c) \cap got = {}
    BY <2>1, Blocks
  <2>3. k = 5 => MappingBlocks[1] \in got
    OBVIOUS
  <2> HIDE DEF got
  <2>4. \A c \in Contexts : ContextBlocks(c) \cap blocks' = ContextBlocks(c) \cap blocks
    BY <2>1, <2>2
  <2>5. CASE k < 5
    <3>1. blocks' \subseteq blocks
      BY <2>1, <2>5
    <3> QED
      BY <2>1, <2>4, <3>1, Blocks DEF MemInv
  <2>6. CASE k = 5
    <3>1. MappingBlocks[1] \in blocks'
      BY <2>1, <2>3, <2>6
    <3> QED
      BY <2>1, <2>4, <3>1 DEF MemInv
  <2> QED
    BY <2>1, <2>5, <2>6
<1>5. ASSUME FreeMapping PROVE MemInv'
  <2>1. /\ kind' = kind /\ blocks' \subseteq blocks
        /\ \A i \in 1 .. 5 : MappingBlocks[i] \notin blocks'
    BY <1>5, Blocks DEF FreeMapping
  <2> QED
    BY <2>1, Blocks DEF MemInv
<1>6. CASE \E c \in Contexts, tries \in Tries : ConnectPi(c, tries) \/ Listen(c, tries)
  BY <1>1, <1>6 DEF ConnectPi, Listen
<1>7. CASE \E c \in Contexts, outcome \in Outcomes : ConnectTcp(c, outcome)
  BY <1>1, <1>7 DEF ConnectTcp
<1>8. CASE \E c \in Contexts : Close(c) \/ AcceptOk(c) \/ AcceptFails(c)
  BY <1>1, <1>8 DEF Close, AcceptOk, AcceptFails
<1>9. CASE CloseListener \/ OtherOpens \/ \E d \in Fds : OtherCloses(d)
  BY <1>1, <1>9 DEF CloseListener, OtherOpens, OtherCloses
<1> QED
  BY <1>2, <1>3, <1>4, <1>5, <1>6, <1>7, <1>8, <1>9 DEF Next

LEMMA InitMemInv == Init => MemInv
BY DEF Init, MemInv

-----------------------------------------------------------------------------
(***************************************************************************)
(* The theorems.                                                           *)
(***************************************************************************)
LEMMA EndpointInvariant ==
    ASSUME PiOnce, ChecksSocket PROVE Spec => [](FdInv /\ MemInv)
<1>1. Init => FdInv /\ MemInv
  BY InitFdInv, InitMemInv
<1>2. FdInv /\ MemInv /\ [Next]_vars => (FdInv /\ MemInv)'
  <2> SUFFICES ASSUME FdInv, MemInv, [Next]_vars PROVE FdInv' /\ MemInv'
    OBVIOUS
  <2>1. CASE Next
    <3>1. kind \in [Contexts -> Kinds \cup {None}]
      BY DEF FdInv, TypeOK
    <3> QED
      BY <2>1, <3>1, NextFdInv, NextMemInv
  <2>2. CASE UNCHANGED vars
    BY <2>2 DEF vars, FdInv, MemInv, TypeOK, ConnectTruthful
  <2> QED
    BY <2>1, <2>2
<1> QED
  BY <1>1, <1>2, PTL DEF Spec

\* The theorems hold for programs that connect a modbus_new_tcp_pi context once
\* (PiOnce) and look at their socket before they accept (ChecksSocket).

\* The type of the state; no context holds the number of standard input.
THEOREM EndpointTypeOK ==
    ASSUME PiOnce, ChecksSocket PROVE Spec => []TypeOK
<1>1. FdInv => TypeOK
  BY DEF FdInv
<1> QED
  BY <1>1, EndpointInvariant, PTL

\* Whatever call fails half-way: every descriptor the library opened is that of a
\* connected context or of the listener, and every block of memory belongs to a
\* context or a mapping that exists.
THEOREM EndpointNothingLost ==
    ASSUME PiOnce, ChecksSocket PROVE Spec => []NothingLost
<1>1. FdInv /\ MemInv => NothingLost
  BY DEF FdInv, MemInv, NothingLost
<1> QED
  BY <1>1, EndpointInvariant, PTL

\* A context that modbus_connect or accept reported as connected owns the open
\* descriptor in its field s.
THEOREM EndpointConnectTruthful ==
    ASSUME PiOnce, ChecksSocket PROVE Spec => []ConnectTruthful
<1>1. FdInv => ConnectTruthful
  BY DEF FdInv
<1> QED
  BY <1>1, EndpointInvariant, PTL

\* No call of the library closes, or takes, a descriptor of the rest of the
\* program.  Without ChecksSocket this is false of standard input.
THEOREM EndpointOthersStay ==
    ASSUME PiOnce, ChecksSocket PROVE Spec => OthersStay
<1> DEFINE Stays == \A d \in Fds : descriptors[d] = Other /\ descriptors'[d] # Other
                                   => OtherCloses(d)
<1>1. FdInv /\ [Next]_vars => [Stays]_vars
  <2> SUFFICES ASSUME FdInv, Next PROVE Stays
    OBVIOUS
  <2>1. CASE OthersKept
    BY <2>1 DEF OthersKept
  <2>2. ASSUME NEW d \in Fds, OtherCloses(d) PROVE Stays
    <3>1. \A e \in Fds : e # d => descriptors'[e] = descriptors[e]
      BY <2>2 DEF OtherCloses, FdInv, TypeOK
    <3> QED
      BY <2>2, <3>1
  <2> QED
    BY <2>1, <2>2, NextFdInv
<1>2. Spec => []FdInv /\ [][Next]_vars
  BY EndpointInvariant, PTL DEF Spec
<1> HIDE DEF Stays
<1>3. Spec => [][Stays]_vars
  BY <1>1, <1>2, PTL
<1> QED
  BY <1>3 DEF Stays, OthersStay
=============================================================================
