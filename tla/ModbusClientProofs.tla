-------------------------- MODULE ModbusClientProofs --------------------------
(***************************************************************************)
(* The client for every number of transaction identifiers, every set of    *)
(* requests and every recovery mode.                                       *)
(*                                                                         *)
(* OwnAnswer is not inductive: that an accepted identifier means an own    *)
(* answer rests on where identifiers come from.  TidInv says it: the       *)
(* identifier of anything under way is the current one, counted back by    *)
(* the age of the message, around the wrap at TidMod.  ImplementsCall also *)
(* that what has age 0 belongs to the request of the call (BelongInv), and *)
(* that a call which sleeps before it ends has failed (SleepInv).          *)
(***************************************************************************)
EXTENDS ModbusClient, TLAPS

\* m was tagged m.age calls ago.
TaggedAt(m, t) == m.tid + m.age \in {t, t + TidMod}

TidInv ==
    Tcp => /\ \A p \in pending : TaggedAt(p, t_id)
           /\ \A i \in 1 .. Len(rx) : TaggedAt(rx[i], t_id)

\* Where in a call the request has been sent.
SentInv ==
    /\ pc = "send" => sends = 0
    /\ pc = "recv" => sends = 1
    /\ pc = "sleep" /\ after = "send" => sends = 0
    /\ sends \in {0, 1}

\* A good result is that of a finished call, and on TCP its own.
ResultInv ==
    result.errno \in {"OK", "EXCEPTION"} =>
        /\ pc = "idle"
        /\ sends = 1
        /\ Tcp => result.rsp.age = 0

CInv == TypeOK /\ TidInv /\ SentInv /\ ResultInv

-----------------------------------------------------------------------------
\* The identifiers wrap: counting on keeps TaggedAt of a message that ages by
\* one, as long as no message is as old as there are identifiers.
LEMMA TagAges ==
    ASSUME NEW t \in 0 .. TidMod - 1, NEW tid \in 0 .. TidMod - 1,
           NEW age \in 0 .. MaxLag, age < MaxLag, tid + age \in {t, t + TidMod},
           NEW u, u = IF t < TidMod - 1 THEN t + 1 ELSE 0
    PROVE  tid + (age + 1) \in {u, u + TidMod}
BY TidAssumption

\* Equal identifiers mean age zero.
LEMMA TagIsOwn ==
    ASSUME NEW t \in 0 .. TidMod - 1, NEW age \in 0 .. MaxLag,
           t + age \in {t, t + TidMod}
    PROVE  age = 0
BY TidAssumption

\* An older copy of a message differs in its age only.
LEMMA OlderTagged ==
    ASSUME NEW m \in Tagged, m.age < MaxLag
    PROVE  /\ Older(m) \in Tagged
           /\ Older(m).tid = m.tid
           /\ Older(m).age = m.age + 1
BY TidAssumption DEF Older, Tagged

LEMMA OlderFrame ==
    ASSUME NEW m \in Frame, m.age < MaxLag
    PROVE  /\ Older(m) \in Frame
           /\ Older(m).tid = m.tid
           /\ Older(m).age = m.age + 1
BY TidAssumption DEF Older, Frame

\* A failure is a result that is not good.
LEMMA FailureType ==
    ASSUME NEW e \in Errnos
    PROVE  /\ Failure(e) \in [errno : Errnos, rsp : Frame \cup {NoFrame}]
           /\ Failure(e).errno = e
BY DEF Failure, Outcome

\* An empty receive buffer holds frames only.
LEMMA EmptyBuffer == <<>> \in Seq(Frame) /\ Len(<<>>) = 0
OBVIOUS

LEMMA InitCInv == Init => CInv
<1> SUFFICES ASSUME Init PROVE CInv
  OBVIOUS
<1>1. "none" \in Errnos
  BY DEF Errnos
<1>2. TypeOK
  <2>1. result \in [errno : Errnos, rsp : Frame \cup {NoFrame}]
    BY <1>1, FailureType DEF Init
  <2>2. t_id \in 0 .. TidMod - 1 /\ sends \in Nat
    BY TidAssumption DEF Init
  <2>3. rx \in Seq(Frame) /\ pending \subseteq Tagged
    BY EmptyBuffer DEF Init
  <2> QED
    BY <2>1, <2>2, <2>3 DEF Init, TypeOK
<1>3. TidInv
  BY EmptyBuffer DEF Init, TidInv
<1>4. SentInv /\ ResultInv
  BY <1>1, FailureType DEF Init, SentInv, ResultInv
<1> QED
  BY <1>2, <1>3, <1>4 DEF CInv

LEMMA VerdictType ==
    ASSUME NEW m
    PROVE  check_confirmation(m) \in
             {"OK", "EXCEPTION", "EMBBADDATA", "EMBBADSLAVE", "EMBBADEXC"}
BY DEF check_confirmation

\* On TCP the transaction identifier decides first.
LEMMA GoodVerdict ==
    ASSUME NEW m, Tcp, check_confirmation(m) \in {"OK", "EXCEPTION"}
    PROVE  m.tid = t_id
BY DEF check_confirmation, pre_check_confirmation

-----------------------------------------------------------------------------
LEMMA CallCInv ==
    ASSUME CInv, NEW r \in Requests, Call(r)
    PROVE  CInv'
<1> USE DEF CInv
<1>1. t_id' \in 0 .. TidMod - 1
  BY TidAssumption DEF Call, NextTid, TypeOK
<1>2. ASSUME NEW p \in pending'
      PROVE  p \in Tagged /\ (Tcp => TaggedAt(p, t_id'))
  <2>1. PICK q \in pending : q.age < MaxLag /\ p = Older(q)
    BY <1>2 DEF Call
  <2>2. q \in Tagged
    BY <2>1 DEF TypeOK
  <2>3. p \in Tagged /\ p.tid = q.tid /\ p.age = q.age + 1
    BY <2>1, <2>2, OlderTagged
  <2>4. ASSUME Tcp PROVE TaggedAt(p, t_id')
    <3>1. q.tid \in 0 .. TidMod - 1 /\ q.age \in 0 .. MaxLag
      BY <2>2 DEF Tagged
    <3>2. q.tid + q.age \in {t_id, t_id + TidMod}
      BY <2>4 DEF TidInv, TaggedAt
    <3>3. t_id' = IF t_id < TidMod - 1 THEN t_id + 1 ELSE 0
      BY <2>4 DEF Call, NextTid
    <3>4. t_id \in 0 .. TidMod - 1
      BY DEF TypeOK
    <3>5. q.tid + (q.age + 1) \in {t_id', t_id' + TidMod}
      BY <2>1, <3>1, <3>2, <3>3, <3>4, TagAges
    <3> QED
      BY <2>3, <3>5 DEF TaggedAt
  <2> QED
    BY <2>3, <2>4
<1>3. Len(rx) \in Nat /\ rx' = [i \in 1 .. Len(rx) |-> Older(rx[i])]
  BY DEF Call, TypeOK
<1>4. ASSUME NEW i \in 1 .. Len(rx)
      PROVE  Older(rx[i]) \in Frame /\ (Tcp => TaggedAt(Older(rx[i]), t_id'))
  <2>1. rx[i] \in Frame
    BY DEF TypeOK
  <2>2. rx[i].age < MaxLag
    BY DEF Call
  <2>3. /\ Older(rx[i]) \in Frame
        /\ Older(rx[i]).tid = rx[i].tid
        /\ Older(rx[i]).age = rx[i].age + 1
    BY <2>1, <2>2, OlderFrame
  <2>4. ASSUME Tcp PROVE TaggedAt(Older(rx[i]), t_id')
    <3>1. rx[i].tid \in 0 .. TidMod - 1 /\ rx[i].age \in 0 .. MaxLag
      BY <2>1 DEF Frame
    <3>2. rx[i].tid + rx[i].age \in {t_id, t_id + TidMod}
      BY <2>4 DEF TidInv, TaggedAt
    <3>3. t_id' = IF t_id < TidMod - 1 THEN t_id + 1 ELSE 0
      BY <2>4 DEF Call, NextTid
    <3>4. t_id \in 0 .. TidMod - 1
      BY DEF TypeOK
    <3>5. rx[i].tid + (rx[i].age + 1) \in {t_id', t_id' + TidMod}
      BY <2>2, <3>1, <3>2, <3>3, <3>4, TagAges
    <3> QED
      BY <2>3, <3>5 DEF TaggedAt
  <2> QED
    BY <2>3, <2>4
<1>5. rx' \in Seq(Frame) /\ Len(rx') = Len(rx)
  BY <1>3, <1>4
<1>6. "none" \in Errnos
  BY DEF Errnos
<1>7. TypeOK'
  BY <1>1, <1>2, <1>5, <1>6, FailureType DEF Call, TypeOK
<1>8. TidInv'
  BY <1>2, <1>3, <1>4, <1>5 DEF TidInv
<1>9. SentInv'
  BY DEF Call, SentInv
<1>10. ResultInv'
  BY <1>6, FailureType DEF Call, ResultInv
<1> QED
  BY <1>7, <1>8, <1>9, <1>10

\* The steps that leave pending and rx alone, or empty them.
LEMMA DropsKeepTags ==
    ASSUME CInv, t_id' = t_id, pending' \in {pending, {}}, rx' \in {rx, <<>>}
    PROVE  /\ TidInv'
           /\ pending' \subseteq Tagged
           /\ rx' \in Seq(Frame)
<1>1. pending \subseteq Tagged /\ rx \in Seq(Frame)
  BY DEF CInv, TypeOK
<1>2. pending' \subseteq Tagged /\ rx' \in Seq(Frame)
  BY <1>1, EmptyBuffer
<1>3. ASSUME Tcp, NEW p \in pending' PROVE TaggedAt(p, t_id')
  BY <1>3 DEF CInv, TidInv
<1>4. ASSUME Tcp, NEW i \in 1 .. Len(rx') PROVE TaggedAt(rx'[i], t_id')
  <2>1. CASE rx' = rx
    BY <1>4, <2>1 DEF CInv, TidInv
  <2>2. CASE rx' = <<>>
    BY <1>4, <2>2
  <2> QED
    BY <2>1, <2>2
<1> QED
  BY <1>2, <1>3, <1>4 DEF TidInv

LEMMA SendCInv ==
    ASSUME CInv, Send
    PROVE  CInv'
<1> USE DEF CInv
<1>e. {"EMBBADDATA", "EPIPE", "EAGAIN"} \subseteq Errnos
  BY DEF Errnos
<1>1. CASE SendOk
  <2>1. \/ pending' = pending
        \/ pending' = pending \cup {[tid |-> t_id, age |-> 0, req |-> req]}
    BY <1>1 DEF SendOk
  <2>2. [tid |-> t_id, age |-> 0, req |-> req] \in Tagged
    BY TidAssumption DEF TypeOK, Tagged
  <2>3. TypeOK'
    BY <1>1, <2>1, <2>2 DEF SendOk, TypeOK
  <2>4. TaggedAt([tid |-> t_id, age |-> 0, req |-> req], t_id)
    BY DEF TaggedAt, TypeOK
  <2>5. TidInv'
    BY <1>1, <2>1, <2>4 DEF SendOk, TidInv
  <2>6. SentInv' /\ ResultInv'
    BY <1>1 DEF SendOk, SentInv, ResultInv
  <2> QED
    BY <2>3, <2>5, <2>6
<1>2. CASE SendShort
  <2>1. TidInv' /\ pending' \subseteq Tagged /\ rx' \in Seq(Frame)
    BY <1>2, DropsKeepTags DEF SendShort
  <2>2. TypeOK'
    BY <1>2, <1>e, <2>1, FailureType DEF SendShort, Return, TypeOK
  <2>3. SentInv' /\ ResultInv'
    BY <1>2, <1>e, FailureType DEF SendShort, Return, SentInv, ResultInv
  <2> QED
    BY <2>1, <2>2, <2>3
<1>3. CASE SendFailsOnLink
  <2>1. TidInv' /\ pending' \subseteq Tagged /\ rx' \in Seq(Frame)
    BY <1>3, DropsKeepTags DEF SendFailsOnLink, Reconnect, Dropped
  <2>2. TypeOK'
    BY <1>3, <1>e, <2>1, FailureType DEF SendFailsOnLink, Reconnect, Return, TypeOK
  <2>3. SentInv' /\ ResultInv'
    BY <1>3, <1>e, FailureType DEF SendFailsOnLink, Return, SentInv, ResultInv
  <2> QED
    BY <2>1, <2>2, <2>3
<1>4. CASE SendFailsOtherwise
  <2>1. TidInv' /\ pending' \subseteq Tagged /\ rx' \in Seq(Frame)
    BY <1>4, DropsKeepTags DEF SendFailsOtherwise
  <2>2. TypeOK'
    BY <1>4, <1>e, <2>1, FailureType DEF SendFailsOtherwise, Sleep, Return, TypeOK
  <2>3. SentInv' /\ ResultInv'
    BY <1>4, <1>e, FailureType DEF SendFailsOtherwise, Sleep, Return, SentInv, ResultInv
  <2> QED
    BY <2>1, <2>2, <2>3
<1> QED
  BY <1>1, <1>2, <1>3, <1>4 DEF Send

LEMMA RecvFrameCInv ==
    ASSUME CInv, RecvFrame
    PROVE  CInv'
<1> USE DEF CInv
<1> DEFINE m == Head(rx)
<1>0. rx \in Seq(Frame) /\ rx # <<>>
  BY DEF RecvFrame, TypeOK
<1>1. m \in Frame /\ m = rx[1] /\ 1 \in 1 .. Len(rx)
  BY <1>0
<1>2. /\ Tail(rx) \in Seq(Frame)
      /\ Len(Tail(rx)) = Len(rx) - 1
      /\ \A i \in 1 .. Len(rx) - 1 : Tail(rx)[i] = rx[i + 1]
  BY <1>0
<1>3. rx' \in {<<>>, Tail(rx)}
  BY DEF RecvFrame
<1>4. TidInv'
  <2>1. ASSUME Tcp, NEW p \in pending' PROVE TaggedAt(p, t_id')
    BY <2>1 DEF RecvFrame, TidInv
  <2>2. ASSUME Tcp, NEW i \in 1 .. Len(rx') PROVE TaggedAt(rx'[i], t_id')
    <3>1. CASE rx' = <<>>
      BY <2>2, <3>1
    <3>2. CASE rx' = Tail(rx)
      <4>1. i \in 1 .. Len(rx) - 1 /\ i + 1 \in 1 .. Len(rx) /\ rx'[i] = rx[i + 1]
        BY <1>0, <1>2, <2>2, <3>2
      <4> QED
        BY <2>2, <4>1 DEF RecvFrame, TidInv
    <3> QED
      BY <1>3, <3>1, <3>2
  <2> QED
    BY <2>1, <2>2 DEF TidInv
<1>5. rx' \in Seq(Frame)
  BY <1>2, <1>3, EmptyBuffer
<1>6. \/ result' = Failure("EMBBADCRC") /\ pc' = "idle" /\ after' = after
      \/ /\ result' = Outcome(check_confirmation(m), m)
         /\ pc' = "idle" /\ after' = after
      \/ /\ result' = Failure(check_confirmation(m))
         /\ check_confirmation(m) \notin {"OK", "EXCEPTION"}
         /\ pc' = "sleep" /\ after' = "idle"
  BY DEF RecvFrame, Return, Sleep
<1>7. check_confirmation(m) \in Errnos /\ "EMBBADCRC" \in Errnos
  BY VerdictType DEF Errnos
<1>8. /\ Outcome(check_confirmation(m), m) \in [errno : Errnos, rsp : Frame \cup {NoFrame}]
      /\ Outcome(check_confirmation(m), m).errno = check_confirmation(m)
      /\ Outcome(check_confirmation(m), m).rsp = m
  BY <1>1, <1>7 DEF Outcome
<1>9. TypeOK'
  BY <1>5, <1>6, <1>7, <1>8, FailureType DEF RecvFrame, TypeOK
<1>10. SentInv'
  BY <1>6 DEF RecvFrame, SentInv
<1>11. ResultInv'
  <2> SUFFICES ASSUME result'.errno \in {"OK", "EXCEPTION"}
               PROVE  pc' = "idle" /\ sends' = 1 /\ (Tcp => result'.rsp.age = 0)
    BY DEF ResultInv
  <2>1. /\ result' = Outcome(check_confirmation(m), m)
        /\ check_confirmation(m) \in {"OK", "EXCEPTION"}
        /\ pc' = "idle"
    BY <1>6, <1>7, <1>8, FailureType
  <2>2. sends' = 1
    BY DEF RecvFrame, SentInv
  <2>3. ASSUME Tcp PROVE m.age = 0
    <3>1. m.tid = t_id
      BY <2>1, <2>3, GoodVerdict
    <3>2. TaggedAt(m, t_id)
      BY <1>1, <2>3 DEF TidInv
    <3>3. m.age \in 0 .. MaxLag /\ t_id \in 0 .. TidMod - 1
      BY <1>1 DEF Frame, TypeOK
    <3>4. t_id + m.age \in {t_id, t_id + TidMod}
      BY <3>1, <3>2 DEF TaggedAt
    <3> QED
      BY <3>3, <3>4, TagIsOwn
  <2> QED
    BY <1>8, <2>1, <2>2, <2>3
<1> QED
  BY <1>4, <1>9, <1>10, <1>11

LEMMA LibraryCInv ==
    ASSUME CInv, RecvTimeout \/ RecvClosed \/ RecvFails \/ SleepAndFlush
    PROVE  CInv'
<1> USE DEF CInv
<1>e. {"ETIMEDOUT", "ECONNRESET"} \subseteq Errnos
  BY DEF Errnos
<1>0. t_id' = t_id /\ pending' \in {pending, {}} /\ rx' \in {rx, <<>>}
  BY DEF RecvTimeout, RecvClosed, RecvFails, SleepAndFlush, Reconnect, Dropped
<1>1. TidInv' /\ pending' \subseteq Tagged /\ rx' \in Seq(Frame)
  BY <1>0, DropsKeepTags
<1>2. CASE RecvTimeout
  BY <1>2, <1>e, <1>1, FailureType
     DEF RecvTimeout, Sleep, Return, TypeOK, SentInv, ResultInv
<1>3. CASE RecvClosed
  BY <1>3, <1>e, <1>1, FailureType
     DEF RecvClosed, Return, Reconnect, TypeOK, SentInv, ResultInv
<1>4. CASE RecvFails
  BY <1>4, <1>e, <1>1, FailureType
     DEF RecvFails, Return, TypeOK, SentInv, ResultInv
<1>5. CASE SleepAndFlush
  BY <1>5, <1>1 DEF SleepAndFlush, TypeOK, SentInv, ResultInv
<1> QED
  BY <1>2, <1>3, <1>4, <1>5

LEMMA UserCInv ==
    ASSUME CInv, Connect \/ Close \/ Flush
    PROVE  CInv'
<1> USE DEF CInv
<1>0. t_id' = t_id /\ pending' \in {pending, {}} /\ rx' \in {rx, <<>>}
  BY DEF Connect, Close, Flush, Dropped
<1>1. TidInv' /\ pending' \subseteq Tagged /\ rx' \in Seq(Frame)
  BY <1>0, DropsKeepTags
<1> QED
  BY <1>1 DEF Connect, Close, Flush, TypeOK, SentInv, ResultInv

LEMMA RefusedCInv ==
    ASSUME CInv, NEW r \in Requests, CallRefused(r)
    PROVE  CInv'
<1> USE DEF CInv
<1>e. "EMBMDATA" \in Errnos
  BY DEF Errnos
<1>1. TidInv' /\ pending' \subseteq Tagged /\ rx' \in Seq(Frame)
  BY DropsKeepTags DEF CallRefused
<1> QED
  BY <1>1, <1>e, FailureType DEF CallRefused, TypeOK, SentInv, ResultInv

LEMMA ServerCInv ==
    ASSUME CInv, ServerStep
    PROVE  CInv'
<1> USE DEF CInv
<1>1. ASSUME NEW p \in pending, Answer(p)
      PROVE  CInv'
  <2>1. PICK k \in AnswerKinds :
           rx' = Append(rx, [tid |-> p.tid, age |-> p.age, req |-> p.req, kind |-> k])
    BY <1>1 DEF Answer
  <2> DEFINE f == [tid |-> p.tid, age |-> p.age, req |-> p.req, kind |-> k]
  <2>2. p \in Tagged
    BY DEF TypeOK
  <2>3. f \in Frame /\ f.tid = p.tid /\ f.age = p.age
    BY <2>2 DEF Tagged, Frame, AnswerKinds
  <2>4. rx \in Seq(Frame)
    BY DEF TypeOK
  <2> HIDE DEF f
  <2>5. /\ rx' \in Seq(Frame)
        /\ Len(rx') = Len(rx) + 1
        /\ \A i \in 1 .. Len(rx) : rx'[i] = rx[i]
        /\ rx'[Len(rx) + 1] = f
        /\ Len(rx) \in Nat
    BY <2>1, <2>3, <2>4 DEF f
  <2>6. TypeOK'
    BY <1>1, <2>5 DEF Answer, TypeOK
  <2>7. ASSUME Tcp, NEW i \in 1 .. Len(rx') PROVE TaggedAt(rx'[i], t_id')
    <3>0. t_id' = t_id
      BY <1>1 DEF Answer
    <3>1. CASE i \in 1 .. Len(rx)
      BY <2>5, <2>7, <3>0, <3>1 DEF TidInv
    <3>2. CASE i = Len(rx) + 1
      <4>1. TaggedAt(p, t_id)
        BY <2>7 DEF TidInv
      <4> QED
        BY <2>3, <2>5, <3>0, <3>2, <4>1 DEF TaggedAt
    <3> QED
      BY <2>5, <2>7, <3>1, <3>2
  <2>8. TidInv'
    BY <1>1, <2>7 DEF Answer, TidInv
  <2>9. SentInv' /\ ResultInv'
    BY <1>1 DEF Answer, SentInv, ResultInv
  <2> QED
    BY <2>6, <2>8, <2>9
<1>2. ASSUME NEW p \in pending, Lose(p)
      PROVE  CInv'
  BY <1>2 DEF Lose, TypeOK, TidInv, SentInv, ResultInv
<1>3. CASE PeerCloses
  <2>1. TidInv' /\ pending' \subseteq Tagged /\ rx' \in Seq(Frame)
    BY <1>3, DropsKeepTags DEF PeerCloses
  <2> QED
    BY <1>3, <2>1 DEF PeerCloses, TypeOK, SentInv, ResultInv
<1>4. CASE GetCalm
  BY <1>4 DEF GetCalm, TypeOK, TidInv, SentInv, ResultInv
<1> QED
  BY <1>1, <1>2, <1>3, <1>4 DEF ServerStep

LEMMA NextCInv == CInv /\ [Next]_vars => CInv'
<1> SUFFICES ASSUME CInv, [Next]_vars PROVE CInv'
  OBVIOUS
<1>1. CASE LibraryStep
  BY <1>1, SendCInv, RecvFrameCInv, LibraryCInv DEF LibraryStep, Receive
<1>2. CASE UserStep
  BY <1>2, CallCInv, RefusedCInv, UserCInv DEF UserStep
<1>3. CASE ServerStep
  BY <1>3, ServerCInv
<1>4. CASE UNCHANGED vars
  BY <1>4 DEF vars, CInv, TypeOK, TidInv, SentInv, ResultInv
<1> QED
  BY <1>1, <1>2, <1>3, <1>4 DEF Next

-----------------------------------------------------------------------------
\* The inductive invariant holds in every behaviour.
THEOREM ClientInvariant == Spec => []CInv
BY InitCInv, NextCInv, PTL DEF Spec

\* Every variable of a client keeps its type.
THEOREM ClientTypeOK == Spec => []TypeOK
<1>1. CInv => TypeOK
  BY DEF CInv
<1> QED
  BY <1>1, ClientInvariant, PTL

\* A TCP client never takes the late answer of an earlier call for its own,
\* however the identifiers wrap, as long as no answer outlives TidMod - 1 calls.
THEOREM TcpOwnAnswer ==
    ASSUME Tcp
    PROVE  Spec => []OwnAnswer
<1>1. CInv => OwnAnswer
  BY DEF CInv, ResultInv, OwnAnswer
<1> QED
  BY <1>1, ClientInvariant, PTL

\* A call hands its request over at most once, and has when it succeeds.
SentOnce ==
    /\ sends <= 1
    /\ result.errno \in {"OK", "EXCEPTION"} => sends = 1

\* One call puts its request on the wire at most once, in every recovery mode
\* and on both backends: send_msg repeats only sends that failed, and no
\* reconnect after a successful send repeats it.
THEOREM ClientSentOnce == Spec => []SentOnce
<1>1. CInv => SentOnce
  BY DEF CInv, SentInv, ResultInv, SentOnce
<1> QED
  BY <1>1, ClientInvariant, PTL

-----------------------------------------------------------------------------
(***************************************************************************)
(* Whose values are stored.  On TCP the identifier leads to the request of *)
(* the call itself; on RTU the slave, the function and the quantity of the *)
(* answer are compared, which is less, but enough for the destination.     *)
(***************************************************************************)
\* During a call what has age 0 belongs to its request.
Belongs(m) == pc # "idle" /\ m.age = 0 => m.req = req

BelongInv ==
    /\ \A p \in pending : Belongs(p)
    /\ \A i \in 1 .. Len(rx) : Belongs(rx[i]) /\ (Tcp => rx[i].kind # "corrupt")

AInv == CInv /\ BelongInv /\ AnswerFits

\* What a good verdict says of an answer whose checksum was looked at.
LEMMA GoodAnswer ==
    ASSUME CInv, NEW m \in Frame,
           m.kind # "corrupt", check_confirmation(m) = "OK"
    PROVE  /\ m.kind = "normal"
           /\ m.req.fn = req.fn
           /\ req.fn \in RegisterReads \cup MultipleWrites => m.req.nb = req.nb
           /\ req.fn \in BitReads => BytesOfBits(m.req.nb) = BytesOfBits(req.nb)
<1>1. /\ m.kind \in {"normal", "exception"}
      /\ m.req.fn \in ClientFunctions /\ m.req.nb \in Nat
      /\ req.fn \in ClientFunctions /\ req.nb \in Nat
  BY RequestAssumption DEF Frame, CInv, TypeOK
<1>2. \A f \in ClientFunctions : f \in Nat
  BY DEF ClientFunctions, BitReads, RegisterReads, SingleWrites, MultipleWrites,
         FC_READ_COILS, FC_READ_DISCRETE_INPUTS, FC_READ_HOLDING_REGISTERS,
         FC_READ_INPUT_REGISTERS, FC_WRITE_SINGLE_COIL, FC_WRITE_SINGLE_REGISTER,
         FC_WRITE_MULTIPLE_COILS, FC_WRITE_MULTIPLE_REGISTERS,
         FC_REPORT_SLAVE_ID, FC_WRITE_AND_READ_REGISTERS
<1>3. ~(rsp_function(m) >= 128) /\ rsp_function(m) = req.fn /\ SameQuantity(m)
  BY DEF check_confirmation
<1>4. m.kind = "normal" /\ m.req.fn = req.fn
  BY <1>1, <1>2, <1>3 DEF rsp_function
<1>n. /\ BitReads = {1, 2} /\ RegisterReads = {3, 4} /\ MultipleWrites = {15, 16}
      /\ FC_WRITE_AND_READ_REGISTERS = 23
  BY DEF BitReads, RegisterReads, MultipleWrites, FC_WRITE_AND_READ_REGISTERS,
         FC_READ_COILS, FC_READ_DISCRETE_INPUTS, FC_READ_HOLDING_REGISTERS,
         FC_READ_INPUT_REGISTERS, FC_WRITE_MULTIPLE_COILS, FC_WRITE_MULTIPLE_REGISTERS
<1>5. CASE req.fn \in BitReads
  <2>1. req.fn \notin RegisterReads \cup MultipleWrites
        /\ req.fn # FC_WRITE_AND_READ_REGISTERS
    BY <1>5, <1>n
  <2>2. ReplyByteCount(m.req.fn, m.req.nb, IdLength) = BytesOfBits(m.req.nb)
    BY <1>4, <1>5, <1>n, <2>1 DEF ReplyByteCount, FC_REPORT_SLAVE_ID
  <2>3. BytesOfBits(req.nb) = ReplyByteCount(m.req.fn, m.req.nb, IdLength)
    BY <1>3, <1>5, <2>1 DEF SameQuantity
  <2> QED
    BY <1>4, <2>1, <2>2, <2>3
<1>6. CASE req.fn \in RegisterReads
  <2>1. /\ req.fn \notin BitReads \cup MultipleWrites
        /\ req.fn # FC_WRITE_AND_READ_REGISTERS
    BY <1>6, <1>n
  <2>2. ReplyByteCount(m.req.fn, m.req.nb, IdLength) = 2 * m.req.nb
    BY <1>4, <1>6, <1>n, <2>1 DEF ReplyByteCount, FC_REPORT_SLAVE_ID
  <2>3. req.nb = ReplyByteCount(m.req.fn, m.req.nb, IdLength) \div 2
    BY <1>3, <1>6, <2>1 DEF SameQuantity
  <2> QED
    BY <1>1, <1>4, <2>1, <2>2, <2>3
<1>7. CASE req.fn \in MultipleWrites
  <2>1. /\ req.fn \notin BitReads \cup RegisterReads
        /\ req.fn # FC_WRITE_AND_READ_REGISTERS
    BY <1>7, <1>n
  <2>2. req.nb = m.req.nb
    BY <1>3, <1>7, <2>1 DEF SameQuantity
  <2> QED
    BY <1>4, <2>1, <2>2
<1> QED
  BY <1>4, <1>5, <1>6, <1>7

\* What was there before still belongs to the call, if the call is the same.
LEMMA BelongsStays ==
    ASSUME BelongInv, req' = req, pc' # "idle" => pc # "idle",
           pending' \subseteq pending, rx' \in {rx, <<>>}
    PROVE  BelongInv'
<1>1. ASSUME NEW p \in pending' PROVE Belongs(p)'
  BY <1>1 DEF BelongInv, Belongs
<1>2. ASSUME NEW i \in 1 .. Len(rx')
      PROVE  Belongs(rx[i])' /\ (Tcp => rx'[i].kind # "corrupt") /\ rx' = rx
  <2>1. rx' = rx
    BY <1>2, EmptyBuffer
  <2> QED
    BY <1>2, <2>1 DEF BelongInv, Belongs
<1> QED
  BY <1>1, <1>2 DEF BelongInv, Belongs

LEMMA RecvFrameAnswer ==
    ASSUME AInv, RecvFrame, Tcp \/ req.slave # 0
    PROVE  BelongInv' /\ AnswerFits'
<1> USE DEF AInv
<1> DEFINE m == Head(rx)
<1>0. rx \in Seq(Frame) /\ rx # <<>>
  BY DEF RecvFrame, CInv, TypeOK
<1>1. m \in Frame /\ m = rx[1] /\ 1 \in 1 .. Len(rx)
  BY <1>0
<1>2. /\ Tail(rx) \in Seq(Frame)
      /\ Len(Tail(rx)) = Len(rx) - 1
      /\ \A i \in 1 .. Len(rx) - 1 : Tail(rx)[i] = rx[i + 1]
  BY <1>0
<1>3. rx' \in {<<>>, Tail(rx)} /\ pending' = pending /\ req' = req /\ pc = "recv"
  BY DEF RecvFrame
<1>4. BelongInv'
  <2>1. ASSUME NEW p \in pending' PROVE Belongs(p)'
    BY <1>3, <2>1 DEF BelongInv, Belongs
  <2>2. ASSUME NEW i \in 1 .. Len(rx')
        PROVE  Belongs(rx[i])' /\ (Tcp => rx'[i].kind # "corrupt")
    <3>1. rx' = Tail(rx)
      BY <1>3, <2>2, EmptyBuffer
    <3>2. i + 1 \in 1 .. Len(rx) /\ rx'[i] = rx[i + 1]
      BY <1>0, <1>2, <2>2, <3>1
    <3>3. Belongs(rx[i + 1]) /\ (Tcp => rx[i + 1].kind # "corrupt")
      BY <3>2 DEF BelongInv
    <3> QED
      BY <1>3, <3>2, <3>3 DEF Belongs
  <2> QED
    BY <2>1, <2>2 DEF BelongInv, Belongs
<1>5. CASE result'.errno # "OK"
  BY <1>4, <1>5 DEF AnswerFits
<1>6. CASE result'.errno = "OK"
  <2>1. /\ check_integrity(m)
        /\ check_confirmation(m) = "OK"
        /\ result'.rsp = m
    BY <1>6 DEF RecvFrame, Return, Sleep, Failure, Outcome
  <2>2. pre_check_confirmation(m)
    BY <2>1 DEF check_confirmation
  <2>3. m.kind # "corrupt" /\ req.slave \in {0, m.req.slave}
    <3>1. CASE Tcp
      <4>1. m.age = 0
        <5>1. m.tid = t_id /\ TaggedAt(m, t_id)
          BY <1>1, <2>2, <3>1 DEF pre_check_confirmation, CInv, TidInv
        <5>2. m.age \in 0 .. MaxLag /\ t_id \in 0 .. TidMod - 1
          BY <1>1 DEF Frame, CInv, TypeOK
        <5>3. t_id + m.age \in {t_id, t_id + TidMod}
          BY <5>1 DEF TaggedAt
        <5> QED
          BY <5>2, <5>3, TagIsOwn
      <4>2. Belongs(m) /\ m.kind # "corrupt"
        BY <1>1, <3>1 DEF BelongInv
      <4> QED
        BY <1>3, <4>1, <4>2 DEF Belongs
    <3>2. CASE ~Tcp
      <4>1. req.slave = m.req.slave
        BY <2>2, <3>2 DEF pre_check_confirmation
      <4> QED
        BY <2>1, <3>2, <4>1 DEF check_integrity
    <3> QED
      BY <3>1, <3>2
  <2>4. AnswerFits'
    BY <1>1, <1>3, <2>1, <2>3, GoodAnswer DEF AnswerFits
  <2> QED
    BY <1>4, <2>4
<1> QED
  BY <1>5, <1>6

LEMMA LibraryAnswer ==
    ASSUME AInv, LibraryStep, Tcp \/ req.slave # 0
    PROVE  BelongInv' /\ AnswerFits'
<1> USE DEF AInv
<1>1. CASE SendOk
  <2>1. pending' \subseteq pending \cup {[tid |-> t_id, age |-> 0, req |-> req]}
    BY <1>1 DEF SendOk
  <2>2. ASSUME NEW p \in pending' PROVE Belongs(p)'
    BY <1>1, <2>1, <2>2 DEF SendOk, BelongInv, Belongs
  <2>3. BelongInv'
    BY <1>1, <2>2 DEF SendOk, BelongInv, Belongs
  <2> QED
    BY <1>1, <2>3 DEF SendOk, AnswerFits
<1>2. CASE SendShort
  <2>1. BelongInv'
    BY <1>2, BelongsStays DEF SendShort, Return
  <2> QED
    BY <1>2, <2>1 DEF SendShort, Return, Failure, Outcome, AnswerFits
<1>3. CASE SendFailsOnLink
  <2>1. BelongInv'
    BY <1>3, BelongsStays DEF SendFailsOnLink, Return, Reconnect, Dropped
  <2> QED
    BY <1>3, <2>1 DEF SendFailsOnLink, Return, Failure, Outcome, AnswerFits
<1>4. CASE SendFailsOtherwise
  <2>1. BelongInv'
    BY <1>4, BelongsStays DEF SendFailsOtherwise, Return, Sleep
  <2> QED
    BY <1>4, <2>1 DEF SendFailsOtherwise, Return, Sleep, Failure, Outcome, AnswerFits
<1>5. CASE RecvFrame
  BY <1>5, RecvFrameAnswer
<1>6. CASE RecvTimeout
  <2>1. BelongInv'
    BY <1>6, BelongsStays DEF RecvTimeout, Return, Sleep
  <2> QED
    BY <1>6, <2>1 DEF RecvTimeout, Return, Sleep, Failure, Outcome, AnswerFits
<1>7. CASE RecvClosed
  <2>1. BelongInv'
    BY <1>7, BelongsStays DEF RecvClosed, Return, Reconnect, Dropped
  <2> QED
    BY <1>7, <2>1 DEF RecvClosed, Return, Failure, Outcome, AnswerFits
<1>8. CASE RecvFails
  <2>1. BelongInv'
    BY <1>8, BelongsStays DEF RecvFails, Return
  <2> QED
    BY <1>8, <2>1 DEF RecvFails, Return, Failure, Outcome, AnswerFits
<1>9. CASE SleepAndFlush
  <2>1. BelongInv'
    BY <1>9, BelongsStays DEF SleepAndFlush
  <2> QED
    BY <1>9, <2>1 DEF SleepAndFlush, AnswerFits
<1> QED
  BY <1>1, <1>2, <1>3, <1>4, <1>5, <1>6, <1>7, <1>8, <1>9
     DEF LibraryStep, Send, Receive

LEMMA UserAnswer ==
    ASSUME AInv, UserStep
    PROVE  BelongInv' /\ AnswerFits'
<1> USE DEF AInv
<1>1. ASSUME NEW r \in Requests, Call(r)
      PROVE  BelongInv' /\ AnswerFits'
  <2>1. ASSUME NEW p \in pending' PROVE Belongs(p)'
    <3>1. PICK q \in pending : q.age < MaxLag /\ p = Older(q)
      BY <1>1, <2>1 DEF Call
    <3>2. q \in Tagged
      BY <3>1 DEF CInv, TypeOK
    <3>3. p.age = q.age + 1 /\ q.age \in Nat
      BY <3>1, <3>2, OlderTagged, TidAssumption DEF Tagged
    <3> QED
      BY <3>3 DEF Belongs
  <2>2. Len(rx) \in Nat /\ rx' = [i \in 1 .. Len(rx) |-> Older(rx[i])]
    BY <1>1 DEF Call, CInv, TypeOK
  <2>3. ASSUME NEW i \in 1 .. Len(rx')
        PROVE  Belongs(rx[i])' /\ (Tcp => rx'[i].kind # "corrupt")
    <3>0. i \in 1 .. Len(rx) /\ rx'[i] = Older(rx[i])
      BY <2>2, <2>3
    <3>1. rx[i] \in Frame /\ rx[i].age < MaxLag
      BY <1>1, <3>0 DEF Call, CInv, TypeOK
    <3>2. rx'[i].age = rx[i].age + 1 /\ rx[i].age \in Nat
      BY <3>0, <3>1, OlderFrame, TidAssumption DEF Frame
    <3>3. rx'[i].kind = rx[i].kind
      BY <3>0, <3>1 DEF Older, Frame
    <3>4. Tcp => rx[i].kind # "corrupt"
      BY <3>0 DEF BelongInv
    <3> QED
      BY <3>2, <3>3, <3>4 DEF Belongs
  <2>4. BelongInv'
    BY <2>1, <2>3 DEF BelongInv, Belongs
  <2> QED
    BY <1>1, <2>4 DEF Call, Failure, Outcome, AnswerFits
<1>2. ASSUME NEW r \in Requests, CallRefused(r)
      PROVE  BelongInv' /\ AnswerFits'
  <2>1. BelongInv'
    BY <1>2 DEF CallRefused, BelongInv, Belongs
  <2> QED
    BY <1>2, <2>1 DEF CallRefused, Failure, Outcome, AnswerFits
<1>3. CASE Connect \/ Close \/ Flush
  <2>1. BelongInv'
    BY <1>3, BelongsStays DEF Connect, Close, Flush, Dropped
  <2> QED
    BY <1>3, <2>1 DEF Connect, Close, Flush, AnswerFits
<1> QED
  BY <1>1, <1>2, <1>3 DEF UserStep

LEMMA ServerAnswer ==
    ASSUME AInv, ServerStep
    PROVE  BelongInv' /\ AnswerFits'
<1> USE DEF AInv
<1>0. AnswerFits'
  BY DEF ServerStep, Answer, Lose, PeerCloses, GetCalm, AnswerFits
<1>1. ASSUME NEW p \in pending, Answer(p)
      PROVE  BelongInv'
  <2>1. PICK k \in AnswerKinds :
           rx' = Append(rx, [tid |-> p.tid, age |-> p.age, req |-> p.req, kind |-> k])
    BY <1>1 DEF Answer
  <2> DEFINE f == [tid |-> p.tid, age |-> p.age, req |-> p.req, kind |-> k]
  <2>2. rx \in Seq(Frame) /\ p \in Tagged
    BY DEF CInv, TypeOK
  <2>3. f \in Frame
    BY <2>2 DEF Tagged, Frame, AnswerKinds
  <2>4. Belongs(f) /\ (Tcp => f.kind # "corrupt")
    BY DEF BelongInv, Belongs, AnswerKinds
  <2> HIDE DEF f
  <2>5. /\ Len(rx') = Len(rx) + 1
        /\ \A i \in 1 .. Len(rx) : rx'[i] = rx[i]
        /\ rx'[Len(rx) + 1] = f
        /\ Len(rx) \in Nat
    BY <2>1, <2>2, <2>3 DEF f
  <2>6. \A i \in 1 .. Len(rx') :
           Belongs(rx'[i]) /\ (Tcp => rx'[i].kind # "corrupt")
    BY <2>4, <2>5 DEF BelongInv
  <2> QED
    BY <1>1, <2>6 DEF Answer, BelongInv, Belongs
<1>2. ASSUME NEW p \in pending, Lose(p)
      PROVE  BelongInv'
  BY <1>2, BelongsStays DEF Lose
<1>3. CASE PeerCloses
  BY <1>0, <1>3, BelongsStays DEF PeerCloses
<1>4. CASE GetCalm
  BY <1>0, <1>4, BelongsStays DEF GetCalm
<1> QED
  BY <1>0, <1>1, <1>2, <1>3, <1>4 DEF ServerStep

LEMMA InitAInv == Init => AInv
BY InitCInv, EmptyBuffer DEF Init, AInv, BelongInv, AnswerFits, Failure, Outcome

LEMMA NextAInv ==
    ASSUME Tcp \/ \A r \in Requests : r.slave # 0, AInv, [Next]_vars
    PROVE  AInv'
<1>1. CInv' /\ (Tcp \/ req.slave # 0)
  BY NextCInv DEF AInv, CInv, TypeOK
<1>2. CASE UNCHANGED vars
  BY <1>1, <1>2 DEF vars, AInv, BelongInv, Belongs, AnswerFits
<1> QED
  BY <1>1, <1>2, LibraryAnswer, UserAnswer, ServerAnswer DEF Next, AInv

\* The answer a successful call took has the slave, the function and the
\* number of values its destination array was made for, in every recovery
\* mode.  On a serial line this excludes broadcasts: for them any slave's
\* frame is taken, and its checksum is not looked at.
THEOREM ClientAnswerFits ==
    ASSUME Tcp \/ \A r \in Requests : r.slave # 0
    PROVE  Spec => []AnswerFits
<1>1. AInv /\ [Next]_vars => AInv'
  BY NextAInv
<1>2. AInv => AnswerFits
  BY DEF AInv
<1> QED
  BY <1>1, <1>2, InitAInv, PTL DEF Spec

-----------------------------------------------------------------------------
(***************************************************************************)
(* The client keeps the promise of ModbusCall.  What the caller sees       *)
(* changes only when a call begins, sends or ends; all the recovery does   *)
(* in between is a stutter.  Besides AInv this needs SleepInv: a call that *)
(* ends with _sleep_and_flush has failed before it.                        *)
(***************************************************************************)
Lost == Errnos \ {"none", "OK", "EXCEPTION", "EMBMDATA"}

SleepInv == pc = "sleep" /\ after = "idle" => result.errno \in Lost

LEMMA LostErrnos ==
    /\ {"EMBBADDATA", "EMBBADSLAVE", "EMBBADEXC", "EMBBADCRC"} \subseteq Lost
    /\ {"EPIPE", "EAGAIN", "ETIMEDOUT", "ECONNRESET"} \subseteq Lost
BY DEF Lost, Errnos

\* Nothing the caller sees changes during a call, or without one.
LEMMA Unseen ==
    ASSUME req' = req, sends' = sends,
           \/ pc # "idle" /\ pc' # "idle"
           \/ pc' = pc /\ result' = result
    PROVE  UNCHANGED Promise!call_vars
BY DEF Shown, Promise!call_vars

\* A call that ends with the errno of a failure.
LEMMA GivesUp ==
    ASSUME req' = req, sends' = sends, pc # "idle", pc' = "idle",
           result'.errno \in Lost
    PROVE  Promise!CallNext
<1>1. Shown' = [what |-> "failed"]
  BY DEF Shown, Lost
<1>2. Promise!Fail
  BY <1>1 DEF Promise!Fail, Promise!Failed
<1> QED
  BY <1>2 DEF Promise!CallNext

LEMMA SleepStays ==
    ASSUME SleepInv, [Next]_vars
    PROVE  SleepInv'
<1>1. CASE RecvFrame
  BY <1>1, LostErrnos DEF RecvFrame, Return, Sleep, Failure, Outcome, SleepInv
<1>2. CASE RecvTimeout
  BY <1>2, LostErrnos DEF RecvTimeout, Return, Sleep, Failure, Outcome, SleepInv
<1>3. CASE Send
  BY <1>3 DEF Send, SendOk, SendShort, SendFailsOnLink, SendFailsOtherwise,
              Return, Sleep, SleepInv
<1>4. CASE RecvClosed \/ RecvFails
  BY <1>4 DEF RecvClosed, RecvFails, Return, SleepInv
<1>5. CASE SleepAndFlush
  BY <1>5 DEF SleepAndFlush, SleepInv
<1>6. CASE UserStep
  BY <1>6 DEF UserStep, Call, CallRefused, Connect, Close, Flush, SleepInv
<1>7. CASE ServerStep
  BY <1>7 DEF ServerStep, Answer, Lose, PeerCloses, GetCalm, SleepInv
<1>8. CASE UNCHANGED vars
  BY <1>8 DEF vars, SleepInv
<1> QED
  BY <1>1, <1>2, <1>3, <1>4, <1>5, <1>6, <1>7, <1>8
     DEF Next, LibraryStep, Receive

\* The frame that ends a call on TCP is the answer to its request.
LEMMA OwnFrame ==
    ASSUME AInv, Tcp, RecvFrame, check_confirmation(Head(rx)) \in {"OK", "EXCEPTION"}
    PROVE  Head(rx).req = req
<1> DEFINE m == Head(rx)
<1>1. m \in Frame /\ m = rx[1] /\ 1 \in 1 .. Len(rx) /\ pc = "recv"
  BY DEF RecvFrame, AInv, CInv, TypeOK
<1>2. m.tid = t_id
  BY GoodVerdict
<1>3. TaggedAt(m, t_id) /\ Belongs(m)
  BY <1>1 DEF AInv, CInv, TidInv, BelongInv
<1>4. m.age \in 0 .. MaxLag /\ t_id \in 0 .. TidMod - 1
  BY <1>1 DEF Frame, AInv, CInv, TypeOK
<1>5. t_id + m.age \in {t_id, t_id + TidMod}
  BY <1>2, <1>3 DEF TaggedAt
<1>6. m.age = 0
  BY <1>4, <1>5, TagIsOwn
<1> QED
  BY <1>1, <1>3, <1>6 DEF Belongs

LEMMA RecvFramePromise ==
    ASSUME AInv, Tcp, RecvFrame
    PROVE  [Promise!CallNext]_Promise!call_vars
<1> DEFINE m == Head(rx)
<1>0. pc = "recv" /\ req' = req /\ sends' = sends /\ sends = 1
  BY DEF RecvFrame, AInv, CInv, SentInv
<1>1. \/ pc' = "idle" /\ result' = Failure("EMBBADCRC")
      \/ pc' = "idle" /\ result' = Outcome(check_confirmation(m), m)
      \/ pc' = "sleep"
  BY DEF RecvFrame, Return, Sleep
<1>2. CASE pc' = "sleep"
  BY <1>0, <1>2, Unseen
<1>3. CASE pc' = "idle" /\ result'.errno \in Lost
  BY <1>0, <1>3, GivesUp
<1>4. CASE /\ pc' = "idle"
           /\ result' = Outcome(check_confirmation(m), m)
           /\ check_confirmation(m) \in {"OK", "EXCEPTION"}
  <2>1. m.req = req
    BY <1>4, OwnFrame
  <2>2. result'.errno = check_confirmation(m) /\ result'.rsp = m
    BY <1>4 DEF Outcome
  <2> HIDE DEF m
  <2>3. Shown' = [what |-> IF result'.errno = "OK" THEN "values" ELSE "exception",
                  to |-> req]
    BY <1>4, <2>1, <2>2 DEF Shown
  <2>4. \E what \in {"values", "exception"} : Shown' = Promise!Answered(what, req)
    BY <2>3 DEF Promise!Answered
  <2>5. Promise!Succeed
    BY <1>0, <1>4, <2>4 DEF Promise!Succeed
  <2> QED
    BY <2>5 DEF Promise!CallNext
<1>5. check_confirmation(m) \in {"OK", "EXCEPTION"} \cup Lost
  BY VerdictType, LostErrnos
<1>6. Failure("EMBBADCRC").errno \in Lost
  BY LostErrnos DEF Failure, Outcome
<1>7. Outcome(check_confirmation(m), m).errno = check_confirmation(m)
  BY DEF Outcome
<1> QED
  BY <1>1, <1>2, <1>3, <1>4, <1>5, <1>6, <1>7

LEMMA LibraryPromise ==
    ASSUME AInv, SleepInv, Tcp, LibraryStep
    PROVE  [Promise!CallNext]_Promise!call_vars
<1>1. CASE SendOk
  <2>1. pc = "send" /\ pc' = "recv" /\ sends = 0 /\ sends' = 1 /\ req' = req
    BY <1>1 DEF SendOk, AInv, CInv, SentInv
  <2>2. Promise!HandOver
    BY <2>1 DEF Promise!HandOver, Shown
  <2> QED
    BY <2>2 DEF Promise!CallNext
<1>2. CASE SendShort
  BY <1>2, LostErrnos, GivesUp DEF SendShort, Return, Failure, Outcome
<1>3. CASE SendFailsOnLink
  <2>1. CASE LinkRecovery
    BY <1>3, <2>1, Unseen DEF SendFailsOnLink
  <2>2. CASE ~LinkRecovery
    BY <1>3, <2>2, LostErrnos, GivesUp DEF SendFailsOnLink, Return, Failure, Outcome
  <2> QED
    BY <2>1, <2>2
<1>4. CASE SendFailsOtherwise
  <2>1. CASE LinkRecovery
    BY <1>4, <2>1, Unseen DEF SendFailsOtherwise, Sleep
  <2>2. CASE ~LinkRecovery
    BY <1>4, <2>2, LostErrnos, GivesUp DEF SendFailsOtherwise, Return, Failure, Outcome
  <2> QED
    BY <2>1, <2>2
<1>5. CASE RecvFrame
  BY <1>5, RecvFramePromise
<1>6. CASE RecvTimeout
  <2>1. CASE LinkRecovery
    BY <1>6, <2>1, Unseen DEF RecvTimeout, Sleep
  <2>2. CASE ~LinkRecovery
    BY <1>6, <2>2, LostErrnos, GivesUp DEF RecvTimeout, Return, Failure, Outcome
  <2> QED
    BY <2>1, <2>2
<1>7. CASE RecvClosed
  BY <1>7, LostErrnos, GivesUp DEF RecvClosed, Return, Failure, Outcome
<1>8. CASE RecvFails
  BY <1>8, LostErrnos, GivesUp DEF RecvFails, Return, Failure, Outcome
<1>9. CASE SleepAndFlush
  <2>1. CASE after = "send"
    BY <1>9, <2>1, Unseen DEF SleepAndFlush
  <2>2. CASE after = "idle"
    BY <1>9, <2>2, GivesUp DEF SleepAndFlush, SleepInv
  <2> QED
    BY <2>1, <2>2 DEF AInv, CInv, TypeOK
<1> QED
  BY <1>1, <1>2, <1>3, <1>4, <1>5, <1>6, <1>7, <1>8, <1>9
     DEF LibraryStep, Send, Receive

LEMMA UserPromise ==
    ASSUME UserStep
    PROVE  [Promise!CallNext]_Promise!call_vars
<1>1. ASSUME NEW r \in Requests, Call(r)
      PROVE  Promise!CallNext
  <2>1. Shown' = [what |-> "nothing"]
    BY <1>1 DEF Call, Shown
  <2>2. r \notin {q \in Requests : TooMany(q)}
    BY <1>1 DEF Call
  <2>3. Promise!Begin(r)
    BY <1>1, <2>1, <2>2 DEF Call, Promise!Begin, Promise!Nothing
  <2> QED
    BY <2>3 DEF Promise!CallNext
<1>2. ASSUME NEW r \in Requests, CallRefused(r)
      PROVE  Promise!CallNext
  <2>1. Shown' = [what |-> "refused"]
    BY <1>2 DEF CallRefused, Failure, Outcome, Shown
  <2>2. r \in {q \in Requests : TooMany(q)}
    BY <1>2 DEF CallRefused
  <2>3. Promise!Refuse(r)
    BY <1>2, <2>1, <2>2 DEF CallRefused, Promise!Refuse, Promise!Refused
  <2> QED
    BY <2>3 DEF Promise!CallNext
<1>3. CASE Connect \/ Close \/ Flush
  BY <1>3, Unseen DEF Connect, Close, Flush
<1> QED
  BY <1>1, <1>2, <1>3 DEF UserStep

LEMMA ServerPromise ==
    ASSUME ServerStep
    PROVE  UNCHANGED Promise!call_vars
BY Unseen DEF ServerStep, Answer, Lose, PeerCloses, GetCalm

\* On TCP, in every recovery mode and however the identifiers wrap, a call
\* hands its request over at most once and returns the answer to this very
\* request or an error, as ModbusCall says.
THEOREM ClientImplementsCall ==
    ASSUME Tcp
    PROVE  Spec => ImplementsCall
<1>1. Init => Promise!CallInit
  BY DEF Init, Failure, Outcome, Shown, Promise!CallInit, Promise!Nothing
<1>2. Init => SleepInv
  BY DEF Init, SleepInv
<1>3. SleepInv /\ [Next]_vars => SleepInv'
  BY SleepStays
<1>4. AInv /\ SleepInv /\ [Next]_vars => [Promise!CallNext]_Promise!call_vars
  <2> SUFFICES ASSUME AInv, SleepInv, [Next]_vars
               PROVE  [Promise!CallNext]_Promise!call_vars
    OBVIOUS
  <2>1. CASE UNCHANGED vars
    BY <2>1, Unseen DEF vars
  <2> QED
    BY <2>1, LibraryPromise, UserPromise, ServerPromise DEF Next
<1>5. Spec => []AInv
  <2>1. AInv /\ [Next]_vars => AInv'
    BY NextAInv
  <2> QED
    BY <2>1, InitAInv, PTL DEF Spec
<1> QED
  BY <1>1, <1>2, <1>3, <1>4, <1>5, PTL DEF Spec, ImplementsCall, Promise!CallSpec
=============================================================================
