-------------------------- MODULE ModbusStreamProofs --------------------------
(***************************************************************************)
(* A call of module ModbusStream that begins with nothing outstanding and  *)
(* is answered in time takes exactly the bytes of its answer, for every    *)
(* content and number of registers, every refusal, every number of         *)
(* transaction identifiers and every way of cutting the answer into        *)
(* pieces.  And a call that begins in the middle of what was left over     *)
(* returns, when it succeeds, the answer to its own request.               *)
(***************************************************************************)
EXTENDS ModbusStream, SequenceTheorems, TLAPS

(***************************************************************************)
(* The inductive invariant.  A clean call first waits for its only         *)
(* request to be answered; from then on the answer is what is stored, what *)
(* is in the socket and what is still coming, in this order, and the bytes *)
(* stored and the bytes wanted make up a step of that answer.              *)
(***************************************************************************)
\* An answer to a read of n registers: the data of them, or a refusal.
IsAnswer(a, tid, n) ==
    /\ a \in Seq(Nat)
    /\ a[1] = 0 /\ a[2] = tid
    /\ \/ a[8] = 3 /\ a[9] = 2 * n /\ Len(a) = 9 + 2 * n
       \/ a[8] = 131 /\ Len(a) = 9

\* Where each step of the receive loop ends.
Goal == CASE step = "function" -> 8 [] step = "meta" -> 9 [] OTHER -> 9 + 2 * nb

Waiting ==
    /\ pending = <<[tid |-> t_id, nb |-> nb]>>
    /\ coming = <<>> /\ rx = <<>> /\ msg = <<>>
    /\ step = "function" /\ length_to_read = 8

Answered ==
    /\ pending = <<>>
    /\ IsAnswer(own, t_id, nb)
    /\ msg \in Seq(Nat) /\ rx \in Seq(Nat) /\ coming \in Seq(Nat)
    /\ own = msg \o (rx \o coming)
    /\ step \in {"function", "meta", "data"}
    /\ length_to_read \in Nat \ {0}
    /\ Len(msg) + length_to_read = Goal
    /\ step = "data" => own[8] = 3

Done ==
    /\ pending = <<>> /\ coming = <<>> /\ rx = <<>>
    /\ nb # 0 => errno \in Good /\ msg = own

CleanInv ==
    /\ pc \in {"idle", "recv"}
    /\ pc = "recv" => nb \in 1 .. 125 /\ (Waiting \/ Answered)
    /\ pc = "idle" => Done

SInv == t_id \in 0 .. TidMod - 1 /\ (clean => CleanInv)

-----------------------------------------------------------------------------
(***************************************************************************)
(* Sequences.                                                              *)
(***************************************************************************)
\* A sequence is what it begins with and the rest.
LEMMA Cut ==
    ASSUME NEW s \in Seq(Nat), NEW k \in 0 .. Len(s)
    PROVE  /\ SubSeq(s, 1, k) \in Seq(Nat)
           /\ SubSeq(s, k + 1, Len(s)) \in Seq(Nat)
           /\ Len(SubSeq(s, 1, k)) = k
           /\ Len(SubSeq(s, k + 1, Len(s))) = Len(s) - k
           /\ s = SubSeq(s, 1, k) \o SubSeq(s, k + 1, Len(s))
<1>1. Len(s) \in Nat /\ k \in Nat /\ k <= Len(s)
  BY LenProperties
<1>2. \A i \in 1 .. Len(s) : s[i] \in Nat
  BY ElementOfSeq
<1> DEFINE l == SubSeq(s, 1, k)
           r == SubSeq(s, k + 1, Len(s))
<1>3. l \in Seq(Nat) /\ Len(l) = IF 1 <= k THEN k - 1 + 1 ELSE 0
  <2>1. \A i \in 1 .. k : s[i] \in Nat
    BY <1>1, <1>2
  <2> QED
    BY <1>1, <2>1, SubSeqProperties
<1>4. r \in Seq(Nat) /\ Len(r) = IF k + 1 <= Len(s) THEN Len(s) - (k + 1) + 1 ELSE 0
  <2>1. \A i \in k + 1 .. Len(s) : s[i] \in Nat
    BY <1>1, <1>2
  <2> QED
    BY <1>1, <2>1, SubSeqProperties
<1>5. l \o r = SubSeq(s, 1, Len(s))
  <2>1. 1 \in 1 .. Len(s) + 1 /\ k \in 1 - 1 .. Len(s) /\ Len(s) \in k .. Len(s)
    BY <1>1
  <2> QED
    BY <2>1, ConcatAdjacentSubSeq, Zenon
<1>6. s = l \o r
  BY <1>5, SubSeqFull, Zenon
<1> HIDE DEF l, r
<1>7. Len(l) = k /\ Len(r) = Len(s) - k
  BY <1>1, <1>3, <1>4
<1>8. l \in Seq(Nat) /\ r \in Seq(Nat) /\ Len(l) = k /\ Len(r) = Len(s) - k /\ s = l \o r
  BY <1>3, <1>4, <1>6, <1>7
<1> QED
  BY <1>8, Zenon DEF l, r

\* Concatenation under a name of its own is to the provers a symbol with the
\* laws they are given and no others.
Cat(s, t) == s \o t

LEMMA CatLaws ==
    ASSUME NEW S, NEW s \in Seq(S), NEW t \in Seq(S), NEW u \in Seq(S)
    PROVE  Cat(s, t) \in Seq(S) /\ Cat(Cat(s, t), u) = Cat(s, Cat(t, u))
<1>1. Cat(s, t) \in Seq(S)
  BY ConcatProperties DEF Cat
<1>2. (s \o t) \o u = s \o (t \o u)
  BY ConcatAssociative, SMTT(30)
<1> QED
  BY <1>1, <1>2, Zenon DEF Cat

LEMMA CutCat ==
    ASSUME NEW s \in Seq(Nat), NEW k \in 0 .. Len(s)
    PROVE  /\ SubSeq(s, 1, k) \in Seq(Nat)
           /\ SubSeq(s, k + 1, Len(s)) \in Seq(Nat)
           /\ s = Cat(SubSeq(s, 1, k), SubSeq(s, k + 1, Len(s)))
BY Cut, Zenon DEF Cat

\* Moving what follows a from the third part to the second, or from the
\* second to the first, changes nothing of the whole.
LEMMA MoveRight ==
    ASSUME NEW a \in Seq(Nat), NEW b \in Seq(Nat), NEW c \in Seq(Nat), NEW k \in 0 .. Len(c)
    PROVE  a \o (b \o c)
             = a \o ((b \o SubSeq(c, 1, k)) \o SubSeq(c, k + 1, Len(c)))
<1> DEFINE l == SubSeq(c, 1, k)
           r == SubSeq(c, k + 1, Len(c))
<1>1. l \in Seq(Nat) /\ r \in Seq(Nat) /\ c = Cat(l, r)
  BY CutCat, Zenon
<1> HIDE DEF l, r
<1>2. Cat(a, Cat(b, c)) = Cat(a, Cat(Cat(b, l), r))
  BY <1>1, CatLaws
<1> QED
  BY <1>2, Zenon DEF l, r, Cat

LEMMA MoveLeft ==
    ASSUME NEW a \in Seq(Nat), NEW b \in Seq(Nat), NEW c \in Seq(Nat), NEW k \in 0 .. Len(b)
    PROVE  a \o (b \o c)
             = (a \o SubSeq(b, 1, k)) \o (SubSeq(b, k + 1, Len(b)) \o c)
<1> DEFINE l == SubSeq(b, 1, k)
           r == SubSeq(b, k + 1, Len(b))
<1>1. l \in Seq(Nat) /\ r \in Seq(Nat) /\ b = Cat(l, r)
  BY CutCat, Zenon
<1> HIDE DEF l, r
<1>2. Cat(a, Cat(b, c)) = Cat(Cat(a, l), Cat(r, c))
  <2>1. Cat(r, c) \in Seq(Nat) /\ Cat(b, c) = Cat(l, Cat(r, c))
    BY <1>1, CatLaws
  <2> QED
    BY <1>1, <2>1, CatLaws
<1> QED
  BY <1>2, Zenon DEF l, r, Cat

\* Two sequences in a row.
LEMMA Joined ==
    ASSUME NEW s \in Seq(Nat), NEW t \in Seq(Nat)
    PROVE  /\ s \o t \in Seq(Nat)
           /\ Len(s) \in Nat /\ Len(t) \in Nat
           /\ Len(s \o t) = Len(s) + Len(t)
           /\ \A i \in 1 .. Len(s) : (s \o t)[i] = s[i]
           /\ \A i \in 1 .. Len(t) : (s \o t)[Len(s) + i] = t[i]
<1> DEFINE u == s \o t
<1>1. /\ u \in Seq(Nat) /\ Len(u) = Len(s) + Len(t)
      /\ \A i \in 1 .. Len(s) + Len(t) : u[i] = IF i <= Len(s) THEN s[i] ELSE t[i - Len(s)]
  BY ConcatProperties
<1>2. Len(s) \in Nat /\ Len(t) \in Nat
  BY LenProperties
<1> HIDE DEF u
<1>3. ASSUME NEW i \in 1 .. Len(s) PROVE u[i] = s[i]
  <2>1. i \in 1 .. Len(s) + Len(t) /\ i <= Len(s)
    BY <1>2
  <2> QED
    BY <1>1, <2>1, Zenon
<1>4. ASSUME NEW i \in 1 .. Len(t) PROVE u[Len(s) + i] = t[i]
  <2> DEFINE j == Len(s) + i
  <2>1. i \in Nat /\ j \in 1 .. Len(s) + Len(t) /\ ~(j <= Len(s)) /\ j - Len(s) = i
    BY <1>2
  <2> HIDE DEF j
  <2>2. u[j] = t[j - Len(s)]
    BY <1>1, <2>1, Zenon
  <2> QED
    BY <2>1, <2>2 DEF j
<1>5. /\ u \in Seq(Nat) /\ Len(s) \in Nat /\ Len(t) \in Nat
      /\ Len(u) = Len(s) + Len(t)
      /\ \A i \in 1 .. Len(s) : u[i] = s[i]
      /\ \A i \in 1 .. Len(t) : u[Len(s) + i] = t[i]
  BY <1>1, <1>2, <1>3, <1>4
<1> QED
  BY <1>5 DEF u

\* The beginning of a sequence, and a beginning that is all of it.
LEMMA Begins ==
    ASSUME NEW s \in Seq(Nat), NEW m \in Seq(Nat), NEW t \in Seq(Nat), s = m \o t
    PROVE  /\ Len(m) \in Nat /\ Len(t) \in Nat /\ Len(s) = Len(m) + Len(t)
           /\ \A i \in 1 .. Len(m) : m[i] = s[i]
           /\ Len(m) = Len(s) => m = s /\ t = <<>>
<1>1. Len(m) \in Nat /\ Len(t) \in Nat /\ Len(s) = Len(m) + Len(t)
  BY ConcatProperties, LenProperties
<1>2. \A i \in 1 .. Len(m) : m[i] = s[i]
  <2>1. \A i \in 1 .. Len(m) + Len(t) : s[i] = IF i <= Len(m) THEN m[i] ELSE t[i - Len(m)]
    BY ConcatProperties
  <2> QED
    BY <1>1, <2>1
<1>3. ASSUME Len(m) = Len(s) PROVE m = s /\ t = <<>>
  <2>1. Len(t) = 0
    BY <1>1, <1>3
  <2>2. t = <<>>
    BY <2>1, EmptySeq
  <2> QED
    BY <2>2, ConcatEmptySeq
<1> QED
  BY <1>1, <1>2, <1>3, Zenon
-----------------------------------------------------------------------------
(***************************************************************************)
(* The server.                                                             *)
(***************************************************************************)
\* What the server answers to a read it was sent.
LEMMA AnswersAre ==
    ASSUME NEW tid \in 0 .. TidMod - 1, NEW n \in 1 .. 125,
           NEW a \in Answers([tid |-> tid, nb |-> n])
    PROVE  IsAnswer(a, tid, n)
<1> DEFINE q == [tid |-> tid, nb |-> n]
<1>0. tid \in Nat /\ n \in Nat
  BY StreamAssumption
<1>1. CASE \E d \in Data : Len(d) = 2 * n /\ a = Header(tid, 3 + Len(d)) \o <<3, Len(d)>> \o d
  <2>1. PICK d \in Data :
               Len(d) = 2 * n /\ a = Header(tid, 3 + Len(d)) \o <<3, Len(d)>> \o d
    BY <1>1, Zenon
  <2>2. d \in Seq(0 .. 255)
    BY StreamAssumption
  <2>3. d \in Seq(Nat)
    <3>1. Len(d) \in Nat /\ \A i \in 1 .. Len(d) : d[i] \in 0 .. 255
      BY <2>2, LenProperties, ElementOfSeq
    <3>2. SubSeq(d, 1, Len(d)) \in Seq(Nat)
      <4>1. \A i \in 1 .. Len(d) : d[i] \in Nat
        <5>1. 0 .. 255 \subseteq Nat
          OBVIOUS
        <5> QED
          BY <3>1, <5>1, Zenon
      <4> QED
        BY <3>1, <4>1, SubSeqProperties
    <3>3. SubSeq(d, 1, Len(d)) = d
      BY <2>2, SubSeqFull
    <3> QED
      BY <3>2, <3>3
  <2> DEFINE h == Header(tid, 3 + Len(d))
             f == <<3, Len(d)>>
  <2>4. h \in Seq(Nat) /\ Len(h) = 7 /\ h[1] = 0 /\ h[2] = tid
    BY <1>0, <2>1 DEF Header
  <2>5. f \in Seq(Nat) /\ Len(f) = 2 /\ f[1] = 3 /\ f[2] = 2 * n
    BY <1>0, <2>1
  <2> HIDE DEF h, f
  <2> DEFINE g == h \o f
  <2>6. /\ g \in Seq(Nat) /\ Len(g) = Len(h) + Len(f)
        /\ \A i \in 1 .. Len(h) : g[i] = h[i]
        /\ \A i \in 1 .. Len(f) : g[Len(h) + i] = f[i]
    BY <2>4, <2>5, Joined, Zenon
  <2> HIDE DEF g
  <2>7. Len(g) = 9 /\ g[1] = 0 /\ g[2] = tid /\ g[8] = 3 /\ g[9] = 2 * n
    <3>1. g[7 + 1] = f[1] /\ g[7 + 2] = f[2] /\ g[1] = h[1] /\ g[2] = h[2]
      BY <2>4, <2>5, <2>6
    <3>2. Len(g) = 7 + 2
      BY <2>4, <2>5, <2>6
    <3> QED
      BY <2>4, <2>5, <3>1, <3>2
  <2>8. /\ g \o d \in Seq(Nat) /\ Len(g \o d) = Len(g) + Len(d)
        /\ \A i \in 1 .. Len(g) : (g \o d)[i] = g[i]
    BY <2>3, <2>6, Joined, Zenon
  <2>9. a = g \o d
    BY <2>1 DEF g, h, f
  <2>10. a \in Seq(Nat) /\ Len(a) = 9 + 2 * n /\ \A i \in 1 .. 9 : a[i] = g[i]
    BY <2>1, <2>7, <2>8, <2>9, Zenon
  <2>11. a[1] = 0 /\ a[2] = tid /\ a[8] = 3 /\ a[9] = 2 * n
    BY <2>7, <2>10
  <2> QED
    BY <2>10, <2>11 DEF IsAnswer
<1>2. CASE a = Header(tid, 3) \o <<131, 2>>
  <2> DEFINE h == Header(tid, 3)
             f == <<131, 2>>
  <2>1. h \in Seq(Nat) /\ Len(h) = 7 /\ h[1] = 0 /\ h[2] = tid
    BY <1>0 DEF Header
  <2>2. f \in Seq(Nat) /\ Len(f) = 2 /\ f[1] = 131
    OBVIOUS
  <2> HIDE DEF h, f
  <2> DEFINE g == h \o f
  <2>3. /\ g \in Seq(Nat) /\ Len(g) = Len(h) + Len(f)
        /\ \A i \in 1 .. Len(h) : g[i] = h[i]
        /\ \A i \in 1 .. Len(f) : g[Len(h) + i] = f[i]
    <3>1. h \in Seq(Nat) /\ f \in Seq(Nat)
      BY <2>1, <2>2
    <3> QED
      BY <3>1, Joined, Zenon
  <2>4. a = g
    BY <1>2 DEF g, h, f
  <2> HIDE DEF g
  <2>5. g[7 + 1] = f[1] /\ g[1] = h[1] /\ g[2] = h[2] /\ Len(g) = 7 + 2
    BY <2>1, <2>2, <2>3
  <2> QED
    BY <2>1, <2>2, <2>3, <2>4, <2>5 DEF IsAnswer
<1>3. FC_READ_HOLDING_REGISTERS = 3 /\ FC_READ_HOLDING_REGISTERS + 128 = 131
  BY DEF FC_READ_HOLDING_REGISTERS
<1>4. q.tid = tid /\ q.nb = n
  OBVIOUS
<1>5. a \in Answers(q)
  OBVIOUS
<1> HIDE DEF q
<1>6. \/ \E d \in Data : Len(d) = 2 * n /\ a = Header(tid, 3 + Len(d)) \o <<3, Len(d)>> \o d
      \/ a = Header(tid, 3) \o <<131, 2>>
  BY <1>3, <1>4, <1>5, Zenon DEF Answers
<1> QED
  BY <1>1, <1>2, <1>6, Zenon

-----------------------------------------------------------------------------
(***************************************************************************)
(* The end of a step of the receive loop.                                  *)
(***************************************************************************)
\* The length check_confirmation computes from the request.
LEMMA ReadLength ==
    ASSUME NEW n \in 1 .. 125
    PROVE  compute_response_length_from_request(TCP, FC_READ_HOLDING_REGISTERS, n) = 9 + 2 * n
<1>1. TCP.header_length = 7 /\ TCP.checksum_length = 0
  BY DEF TCP
<1>2. compute_response_length_from_request(TCP, 3, n) = 7 + 0 + (2 + 2 * n)
  BY <1>1 DEF compute_response_length_from_request, FC_REPORT_SLAVE_ID, BitReads, RegisterReads,
       FC_READ_COILS, FC_READ_DISCRETE_INPUTS, FC_READ_HOLDING_REGISTERS,
       FC_READ_INPUT_REGISTERS, FC_WRITE_AND_READ_REGISTERS, FC_READ_EXCEPTION_STATUS
<1> QED
  BY <1>2 DEF FC_READ_HOLDING_REGISTERS

\* The answer itself passes check_confirmation.
LEMMA OwnConfirmed ==
    ASSUME NEW m, NEW n \in 1 .. 125, n = nb, IsAnswer(m, t_id, nb), check_confirmation(m)
    PROVE  pc' = "idle" /\ errno' \in Good
<1>1. m[1] = 0 /\ m[2] = t_id
  BY DEF IsAnswer
<1>2. TCP.header_length + 1 = 8 /\ TCP.header_length + 2 = 9 /\ ExceptionLength(TCP) = 9
  BY DEF TCP, ExceptionLength
<1>3. CASE m[8] = 3 /\ m[9] = 2 * nb /\ Len(m) = 9 + 2 * nb
  <2>1. m[9] \div 2 = nb
    BY <1>3
  <2>2. compute_response_length_from_request(TCP, FC_READ_HOLDING_REGISTERS, nb) = 9 + 2 * nb
    BY ReadLength
  <2>3. FC_READ_HOLDING_REGISTERS = 3 /\ ~(m[8] >= 128)
    BY <1>3 DEF FC_READ_HOLDING_REGISTERS
  <2>4. Return("OK")
    BY <1>1, <1>2, <1>3, <2>1, <2>2, <2>3, Zenon DEF check_confirmation
  <2> QED
    BY <2>4 DEF Return, Good
<1>4. CASE m[8] = 131 /\ Len(m) = 9
  <2>1. m[8] >= 128 /\ m[8] - 128 = FC_READ_HOLDING_REGISTERS
    BY <1>4 DEF FC_READ_HOLDING_REGISTERS
  <2>2. Return("EXCEPTION")
    BY <1>1, <1>2, <1>4, <2>1, Zenon DEF check_confirmation
  <2> QED
    BY <2>2 DEF Return, Good
<1> QED
  BY <1>3, <1>4 DEF IsAnswer

\* What the client reads of it: the function and the byte count of the answer
\* tell the loop where it ends.
LEMMA MetaIsOne ==
    ASSUME NEW fn, fn = 3 \/ fn = 131
    PROVE  compute_meta_length_after_function(fn, "confirmation") = 1
BY DEF compute_meta_length_after_function, SingleWrites, MultipleWrites,
     FC_WRITE_SINGLE_COIL, FC_WRITE_SINGLE_REGISTER, FC_WRITE_MULTIPLE_COILS,
     FC_WRITE_MULTIPLE_REGISTERS

LEMMA DataIs ==
    ASSUME NEW fn, fn = 3 \/ fn = 131, NEW count \in Nat
    PROVE  compute_data_length_after_meta(TCP, fn, count, "confirmation")
             = IF fn = 3 THEN count ELSE 0
<1>1. TCP.checksum_length = 0
  BY DEF TCP
<1> QED
  BY <1>1 DEF compute_data_length_after_meta, FC_READ_INPUT_REGISTERS,
       FC_REPORT_SLAVE_ID, FC_WRITE_AND_READ_REGISTERS

-----------------------------------------------------------------------------
(***************************************************************************)
(* The invariant holds initially, and every step preserves it.             *)
(***************************************************************************)
LEMMA InitSInv == Init => SInv
BY StreamAssumption DEF Init, SInv, CleanInv, Done

LEMMA CallStep ==
    ASSUME SInv, NEW q \in Quantities, Call(q)
    PROVE  SInv'
<1>1. t_id' = NextTid /\ NextTid \in 0 .. TidMod - 1
  BY StreamAssumption DEF SInv, NextTid, Call
<1>2. ASSUME clean' PROVE CleanInv'
  <2>1. pending = <<>> /\ coming = <<>> /\ rx = <<>>
    BY <1>2, Zenon DEF Call, Outstanding
  <2>2. Waiting'
    <3>1. pending' = <<[tid |-> t_id', nb |-> nb']>>
      BY <1>1, <2>1 DEF Call
    <3> QED
      BY <2>1, <3>1 DEF Call, Waiting, TCP
  <2>3. nb' \in 1 .. 125 /\ pc' = "recv"
    BY StreamAssumption DEF Call
  <2> QED
    BY <2>2, <2>3 DEF CleanInv
<1> QED
  BY <1>1, <1>2 DEF SInv

LEMMA AnswerStep ==
    ASSUME SInv, Answer
    PROVE  SInv'
<1>1. UNCHANGED <<t_id, nb, pc, msg, rx, step, length_to_read, clean>> /\ pending # <<>>
  BY DEF Answer
<1>2. ASSUME clean PROVE CleanInv'
  <2>1. pc = "recv" /\ nb \in 1 .. 125 /\ Waiting
    BY <1>1, <1>2 DEF SInv, CleanInv, Done, Answered
  <2>2. pending = <<[tid |-> t_id, nb |-> nb]>>
    BY <2>1 DEF Waiting
  <2>3. Len(pending) = 1 /\ Head(pending) = [tid |-> t_id, nb |-> nb] /\ Tail(pending) = <<>>
    BY <2>2
  <2>4. PICK a \in Answers([tid |-> t_id, nb |-> nb]) : coming' = coming \o a /\ own' = a
    BY <2>3, Zenon DEF Answer
  <2>5. IsAnswer(a, t_id, nb)
    BY <2>1, AnswersAre, Zenon DEF SInv
  <2>6. a \in Seq(Nat)
    BY <2>5 DEF IsAnswer
  <2>7. <<>> \o a = a
    BY <2>6, ConcatEmptySeq
  <2>8. own' = msg' \o (rx' \o coming') /\ coming' = a
    BY <1>1, <2>1, <2>4, <2>7 DEF Waiting
  <2>9. Answered'
    <3>1. pending' = <<>>
      BY <2>3 DEF Answer
    <3>2. IsAnswer(own', t_id', nb')
      BY <1>1, <2>4, <2>5
    <3>3. msg' = <<>> /\ rx' = <<>> /\ step' = "function" /\ length_to_read' = 8
      BY <1>1, <2>1 DEF Waiting
    <3>4. Len(msg') + length_to_read' = Goal'
      BY <3>3 DEF Goal
    <3> QED
      BY <2>6, <2>8, <3>1, <3>2, <3>3, <3>4, EmptySeq DEF Answered
  <2> QED
    BY <1>1, <2>1, <2>9 DEF CleanInv
<1> QED
  BY <1>1, <1>2 DEF SInv

LEMMA ArriveStep ==
    ASSUME SInv, NEW k \in Nat, Arrive(k)
    PROVE  SInv'
<1>1. /\ UNCHANGED <<t_id, nb, pc, pending, msg, step, length_to_read, own, clean>>
      /\ coming # <<>> /\ k <= Len(coming)
      /\ rx' = rx \o SubSeq(coming, 1, k)
      /\ coming' = SubSeq(coming, k + 1, Len(coming))
  BY DEF Arrive
<1>2. ASSUME clean PROVE CleanInv'
  <2>1. pc = "recv" /\ nb \in 1 .. 125 /\ Answered
    BY <1>1, <1>2 DEF SInv, CleanInv, Done, Waiting
  <2>2. msg \in Seq(Nat) /\ rx \in Seq(Nat) /\ coming \in Seq(Nat)
    BY <2>1 DEF Answered
  <2>3. k \in 0 .. Len(coming)
    BY <1>1, <2>2, LenProperties
  <2>4. own' = msg' \o (rx' \o coming')
    <3>1. msg \o (rx \o coming) = msg \o (rx' \o coming')
      BY <1>1, <2>2, <2>3, MoveRight, Zenon
    <3>2. own = msg \o (rx \o coming)
      BY <2>1 DEF Answered
    <3> QED
      BY <1>1, <3>1, <3>2, Zenon
  <2>5. SubSeq(coming, 1, k) \in Seq(Nat) /\ coming' \in Seq(Nat)
    BY <1>1, <2>2, <2>3, Cut, Zenon
  <2>6. rx' \in Seq(Nat)
    BY <1>1, <2>2, <2>5, ConcatProperties
  <2>7. Goal' = Goal
    BY <1>1 DEF Goal
  <2>8. Answered'
    <3>1. IsAnswer(own', t_id', nb')
      BY <1>1, <2>1, Zenon DEF Answered
    <3> QED
      BY <1>1, <2>1, <2>4, <2>5, <2>6, <2>7, <3>1, Zenon DEF Answered
  <2> QED
    BY <1>1, <2>1, <2>8 DEF CleanInv
<1> QED
  BY <1>1, <1>2 DEF SInv

\* What the receive loop does with the bytes of the answer it has stored, when
\* they complete a step: it goes on to the next one, or the call is done.
LEMMA CompleteStep ==
    ASSUME NEW m \in Seq(Nat), NEW t \in Seq(Nat),
           Answered, nb \in 1 .. 125, UNCHANGED <<t_id, nb, pending, own>>,
           own = m \o t, Len(m) = Goal, pc = "recv", StepComplete(m)
    PROVE  \/ /\ pc' = "recv" /\ step' \in {"meta", "data"} /\ length_to_read' \in Nat \ {0}
              /\ Len(m) + length_to_read' = Goal'
              /\ step' = "data" => own[8] = 3
           \/ pc' = "idle" /\ errno' \in Good /\ m = own /\ t = <<>>
<1> DEFINE n == nb
<1>1. own \in Seq(Nat) /\ IsAnswer(own, t_id, n) /\ n \in 1 .. 125
  BY Zenon DEF Answered, IsAnswer
<1>2. n \in Nat /\ n > 0 /\ 2 * n \in Nat \ {0} /\ 9 + (2 * n) <= 260
  BY <1>1
<1>3. /\ Len(m) \in Nat /\ Len(own) \in Nat
      /\ \A i \in 1 .. Len(m) : m[i] = own[i]
      /\ Len(m) = Len(own) => m = own /\ t = <<>>
  BY <1>1, Begins, LenProperties
<1>4. TCP.header_length + 1 = 8 /\ TCP.header_length + 2 = 9 /\ TCP.max_adu_length = 260
  BY DEF TCP
<1>5. \/ own[8] = 3 /\ own[9] = 2 * n /\ Len(own) = 9 + 2 * n
      \/ own[8] = 131 /\ Len(own) = 9
  BY <1>1, Zenon DEF IsAnswer
<1>6. ASSUME Len(m) = Len(own), check_confirmation(m)
      PROVE  pc' = "idle" /\ errno' \in Good /\ m = own /\ t = <<>>
  <2>1. m = own /\ t = <<>>
    BY <1>3, <1>6
  <2> QED
    BY <1>1, <1>6, <2>1, OwnConfirmed
<1>7. CASE step = "function"
  <2>1. Len(m) = 8
    BY <1>7 DEF Goal
  <2>2. m[8] = own[8]
    <3>1. 8 \in 1 .. Len(m)
      BY <2>1
    <3> QED
      BY <1>3, <3>1, Zenon
  <2>3. Wait("meta", compute_meta_length_after_function(m[TCP.header_length + 1], "confirmation"))
    BY <1>7 DEF StepComplete
  <2>4. compute_meta_length_after_function(m[8], "confirmation") = 1
    BY <1>5, <2>2, MetaIsOne, Zenon
  <2>5. step' = "meta" /\ length_to_read' = 1 /\ pc' = "recv"
    BY <1>4, <2>3, <2>4 DEF Wait
  <2>6. Goal' = 9
    BY <2>5 DEF Goal
  <2> QED
    BY <2>1, <2>5, <2>6
<1>8. CASE step = "meta"
  <2>1. Len(m) = 9
    BY <1>8 DEF Goal
  <2>2. m[8] = own[8] /\ m[9] = own[9]
    <3>1. 8 \in 1 .. Len(m) /\ 9 \in 1 .. Len(m)
      BY <2>1
    <3> QED
      BY <1>3, <3>1, Zenon
  <2>3. EnterData(m)
    BY <1>8 DEF StepComplete
  <2> DEFINE data == compute_data_length_after_meta(TCP, m[TCP.header_length + 1],
                                    m[TCP.header_length + 2], "confirmation")
  <2>4. data = IF m[8] = 3 THEN m[9] ELSE 0
    <3>1. own[9] \in Nat
      <4>1. 9 \in 1 .. Len(own)
        BY <1>2, <1>5
      <4> QED
        BY <1>1, <4>1, ElementOfSeq, Zenon
    <3> DEFINE fn == m[8]
               count == m[9]
    <3>2. fn = 3 \/ fn = 131
      BY <1>5, <2>2, Zenon
    <3>3. count \in Nat
      BY <2>2, <3>1, Zenon
    <3> HIDE DEF fn, count
    <3>4. compute_data_length_after_meta(TCP, fn, count, "confirmation")
            = IF fn = 3 THEN count ELSE 0
      BY <3>2, <3>3, DataIs
    <3>5. data = compute_data_length_after_meta(TCP, fn, count, "confirmation")
      BY <1>4, Zenon DEF fn, count
    <3> QED
      BY <3>4, <3>5, Zenon DEF fn, count
  <2>5. IF Len(m) + data > 260
          THEN Return("EMBBADDATA") /\ UNCHANGED <<step, length_to_read>>
          ELSE IF data = 0 THEN Complete(m) ELSE Wait("data", data)
    BY <1>4, <2>3 DEF EnterData
  <2> HIDE DEF data
  <2>6. CASE own[8] = 3
    <3>1. data = 2 * n
      <4>1. own[9] = 2 * n
        BY <1>5, <2>6
      <4> QED
        BY <2>2, <2>4, <2>6, <4>1, Zenon
    <3>2. Wait("data", data)
      BY <1>2, <2>1, <2>5, <3>1
    <3>3. step' = "data" /\ length_to_read' = 2 * n /\ pc' = "recv"
      BY <3>1, <3>2 DEF Wait
    <3>4. Goal' = 9 + 2 * n
      BY <3>3 DEF Goal
    <3> QED
      BY <1>2, <2>1, <2>6, <3>3, <3>4
  <2>7. CASE own[8] = 131
    <3>1. data = 0
      BY <2>2, <2>4, <2>7
    <3>2. check_confirmation(m)
      BY <2>1, <2>5, <3>1 DEF Complete
    <3>3. Len(own) = Len(m)
      BY <1>5, <2>1, <2>7
    <3> QED
      BY <1>6, <3>2, <3>3
  <2> QED
    BY <1>5, <2>6, <2>7, Zenon
<1>9. CASE step = "data"
  <2>1. Len(m) = 9 + 2 * n /\ own[8] = 3
    BY <1>9, Zenon DEF Goal, Answered
  <2>2. Len(m) = Len(own)
    BY <1>5, <2>1
  <2>3. check_confirmation(m)
    BY <1>9 DEF StepComplete, Complete
  <2> QED
    BY <1>6, <2>2, <2>3
<1> QED
  BY <1>7, <1>8, <1>9, Zenon DEF Answered

LEMMA ReceiveStep ==
    ASSUME SInv, Receive
    PROVE  SInv'
<1> DEFINE n == IF Len(rx) < length_to_read THEN Len(rx) ELSE length_to_read
           m == msg \o SubSeq(rx, 1, n)
           r == SubSeq(rx, n + 1, Len(rx))
<1>1. /\ UNCHANGED <<t_id, nb, pending, coming, own, clean>>
      /\ pc = "recv" /\ rx # <<>> /\ msg' = m /\ rx' = r
      /\ IF n < length_to_read THEN Wait(step, length_to_read - n) ELSE StepComplete(m)
  BY DEF Receive
<1>2. ASSUME clean PROVE CleanInv'
  <2>1. nb \in 1 .. 125 /\ Answered
    BY <1>1, <1>2 DEF SInv, CleanInv, Waiting
  <2>2. /\ msg \in Seq(Nat) /\ rx \in Seq(Nat) /\ coming \in Seq(Nat)
        /\ length_to_read \in Nat \ {0} /\ Len(msg) + length_to_read = Goal
        /\ own = msg \o (rx \o coming)
    BY <2>1 DEF Answered
  <2>3. Len(msg) \in Nat /\ Len(rx) \in Nat
    BY <2>2, LenProperties
  <2>4. n \in 0 .. Len(rx) /\ n \in Nat /\ n <= length_to_read
    BY <2>2, <2>3
  <2> HIDE DEF n
  <2> DEFINE l == SubSeq(rx, 1, n)
  <2>5. l \in Seq(Nat) /\ r \in Seq(Nat) /\ Len(l) = n /\ Len(r) = Len(rx) - n
    BY <2>2, <2>4, Cut, Zenon
  <2>6. own = m \o (r \o coming)
    <3>1. msg \o (rx \o coming) = m \o (r \o coming)
      <4>1. msg \in Seq(Nat) /\ rx \in Seq(Nat) /\ coming \in Seq(Nat) /\ n \in 0 .. Len(rx)
        BY <2>2, <2>4
      <4> QED
        BY <4>1, MoveLeft, Zenon
    <3> QED
      BY <2>2, <3>1, Zenon
  <2> DEFINE t == r \o coming
  <2>7. m \in Seq(Nat) /\ t \in Seq(Nat) /\ Len(m) = Len(msg) + n
    <3> HIDE DEF l
    <3>1. msg \o l \in Seq(Nat) /\ Len(msg \o l) = Len(msg) + Len(l)
      BY <2>2, <2>5, ConcatProperties, Zenon
    <3>2. r \o coming \in Seq(Nat)
      BY <2>2, <2>5, ConcatProperties
    <3> QED
      BY <2>5, <3>1, <3>2, Zenon DEF l
  <2> HIDE DEF m, l, r, t
  <2>8. rx' \in Seq(Nat) /\ msg' \in Seq(Nat) /\ own' = msg' \o (rx' \o coming')
    BY <1>1, <2>5, <2>6, <2>7
  <2>9. coming' \in Seq(Nat) /\ IsAnswer(own', t_id', nb')
    BY <1>1, <2>1, <2>2, Zenon DEF Answered
  <2>10. CASE n < length_to_read
    <3>1. UNCHANGED <<step, pc, errno>> /\ length_to_read' = length_to_read - n
      BY <1>1, <2>10 DEF Wait
    <3>2. Goal' = Goal
      BY <1>1, <3>1 DEF Goal
    <3>3. length_to_read' \in Nat \ {0}
      BY <2>2, <2>4, <2>10, <3>1
    <3>4. Len(msg') + length_to_read' = Goal'
      BY <1>1, <2>2, <2>3, <2>4, <2>7, <3>1, <3>2
    <3>5. pending' = <<>> /\ step' \in {"function", "meta", "data"}
          /\ (step' = "data" => own'[8] = 3)
      BY <1>1, <2>1, <3>1, Zenon DEF Answered
    <3>6. Answered'
      BY <2>2, <2>8, <2>9, <3>3, <3>4, <3>5, Zenon DEF Answered
    <3> QED
      BY <1>1, <2>1, <3>1, <3>6 DEF CleanInv
  <2>11. CASE ~(n < length_to_read)
    <3>1. Len(m) = Goal
      <4>1. n = length_to_read
        BY <2>2, <2>4, <2>11
      <4> QED
        BY <2>2, <2>7, <4>1
    <3>2. StepComplete(m)
      BY <1>1, <2>11
    <3>3. own = m \o t
      BY <2>6 DEF t
    <3>4. \/ /\ pc' = "recv" /\ step' \in {"meta", "data"} /\ length_to_read' \in Nat \ {0}
             /\ Len(m) + length_to_read' = Goal'
             /\ step' = "data" => own[8] = 3
          \/ pc' = "idle" /\ errno' \in Good /\ m = own /\ t = <<>>
      BY <1>1, <2>1, <2>7, <3>1, <3>2, <3>3, CompleteStep, Zenon
    <3>5. CASE pc' = "recv"
      <4>1. /\ step' \in {"meta", "data"} /\ length_to_read' \in Nat \ {0}
            /\ Len(m) + length_to_read' = Goal'
            /\ step' = "data" => own[8] = 3
        BY <3>4, <3>5
      <4>2. pending' = <<>> /\ Len(msg') + length_to_read' = Goal'
            /\ (step' = "data" => own'[8] = 3)
        BY <1>1, <2>1, <4>1, Zenon DEF Answered
      <4>3. Answered'
        BY <2>2, <2>8, <2>9, <4>1, <4>2, Zenon DEF Answered
      <4> QED
        BY <1>1, <2>1, <3>5, <4>3 DEF CleanInv
    <3>6. CASE pc' = "idle" /\ errno' \in Good /\ m = own /\ t = <<>>
      <4>1. r = <<>> /\ coming = <<>>
        BY <2>2, <2>5, <3>6, ConcatEqualIffEmpty DEF t
      <4>2. pending = <<>>
        BY <2>1 DEF Answered
      <4>3. Done'
        BY <1>1, <3>6, <4>1, <4>2 DEF Done
      <4> QED
        BY <3>6, <4>3 DEF CleanInv
    <3> QED
      BY <3>4, <3>5, <3>6
  <2> QED
    BY <2>10, <2>11
<1> QED
  BY <1>1, <1>2 DEF SInv

LEMMA NextSInv == SInv /\ [Next]_vars => SInv'
<1> SUFFICES ASSUME SInv, [Next]_vars PROVE SInv'
  OBVIOUS
<1>1. CASE \E q \in Quantities : Call(q)
  BY <1>1, CallStep
<1>2. CASE Answer
  BY <1>2, AnswerStep
<1>3. CASE \E k \in Pieces \cup {Len(coming)} : Arrive(k)
  <2>1. PICK k \in Pieces \cup {Len(coming)} : Arrive(k)
    BY <1>3
  <2>2. CASE clean
    <3>1. coming \in Seq(Nat)
      BY <2>2, EmptySeq, Zenon DEF SInv, CleanInv, Done, Waiting, Answered
    <3>2. k \in Nat
      BY <3>1, LenProperties, StreamAssumption
    <3> QED
      BY <2>1, <3>2, ArriveStep
  <2>3. CASE ~clean
    BY <2>1, <2>3 DEF SInv, Arrive
  <2> QED
    BY <2>2, <2>3
<1>4. CASE Receive
  BY <1>4, ReceiveStep
<1>5. CASE Timeout
  BY <1>5 DEF SInv, Timeout
\* A clean call never sleeps, so what is flushed is never an answer in time.
<1>6. CASE Flush
  BY <1>6 DEF SInv, CleanInv, Flush
<1>7. CASE GetCalm \/ UNCHANGED vars
  <2>1. UNCHANGED <<pc, t_id, nb, pending, coming, rx, step, msg, length_to_read, errno,
                    own, clean>>
    BY <1>7 DEF GetCalm, vars
  <2>2. Goal' = Goal /\ Waiting' = Waiting /\ Done' = Done
    BY <2>1 DEF Goal, Waiting, Done
  <2>3. Answered => Answered'
    BY <2>1, <2>2, Zenon DEF Answered
  <2> QED
    BY <2>1, <2>2, <2>3 DEF SInv, CleanInv
<1> QED
  BY <1>1, <1>2, <1>3, <1>4, <1>5, <1>6, <1>7 DEF Next

\* A call that begins with nothing outstanding and is answered in time returns
\* with exactly the bytes of its answer stored and none left behind
\* (_modbus_receive_msg, check_confirmation).
THEOREM StreamAnswerTaken == Spec => []AnswerTaken
<1>1. SInv => AnswerTaken
  BY DEF SInv, CleanInv, Done, AnswerTaken
<1> QED
  BY <1>1, InitSInv, NextSInv, PTL DEF Spec

-----------------------------------------------------------------------------
(***************************************************************************)
(* Calls that begin in the middle of what was left over.  Of an answer     *)
(* check_confirmation compares the identifier, the function and the byte   *)
(* count; a call takes what has them in the right places.  Where the       *)
(* contents of registers have no function code followed by a byte count    *)
(* that is asked for, these places are those of an answer (Mark), and      *)
(* where less is left over than TidMod answers have bytes, the answer with *)
(* the identifier of the call is its own (Known).                          *)
(***************************************************************************)
\* No register holds a function code followed by a byte count that may be read.
TameContents ==
    \A d \in Data : \A i \in 1 .. Len(d) - 1 : d[i] = 3 => d[i + 1] \div 2 \notin Quantities

\* What a call reads, from its first byte on.
Stream == IF pc = "recv" THEN msg \o (rx \o coming) ELSE rx \o coming

\* Fewer answers are under way than there are identifiers.
Few(s, n) == Len(s) + 9 * n < 9 * (TidMod + 1)

Recent == Few(Stream, Len(pending))

\* What looks like function code and byte count, seven bytes or more after the
\* first one.
Mark(s, i) == i \in 8 .. Len(s) - 1 /\ s[i] = 3 /\ s[i + 1] \div 2 \in Quantities

\* tid is the identifier of the request made age calls before that of id.
Carries(tid, age, id) ==
    tid \in 0 .. TidMod - 1 /\ (tid + age = id \/ tid + age = id + TidMod)

\* The answer o begins seven bytes before the function code at i.
Whole(s, i, o, q) ==
    /\ Len(o) = 9 + 2 * q /\ (i - 8) + Len(o) <= Len(s)
    /\ \A k \in 1 .. Len(o) : o[k] = s[(i - 8) + k]

\* It belongs to an answer, older than the n requests that have none, with room
\* for the younger ones behind it; the answer to the last request is all there.
Known(s, i, n, id, o, q) ==
    \E age \in Nat :
        /\ n <= age /\ 9 * age <= 9 * n + Len(s) - (i + 1)
        /\ Carries(s[i - 6], age, id)
        /\ age = 0 => Whole(s, i, o, q)

Marks(s, n, id, o, q) == \A i : Mark(s, i) => Known(s, i, n, id, o, q)

\* What check_confirmation compares of a message it takes for an answer.
Accepted(m, id, q) == m[2] = id /\ Len(m) = 9 + 2 * q /\ m[8] = 3 /\ m[9] \div 2 = q

Requested(reqs, id, q) ==
    /\ \A j \in 1 .. Len(reqs) :
          /\ reqs[j] = [tid |-> reqs[j].tid, nb |-> reqs[j].nb]
          /\ reqs[j].nb \in Quantities /\ Carries(reqs[j].tid, Len(reqs) - j, id)
    /\ Len(reqs) # 0 => reqs[Len(reqs)].nb = q

\* What holds when the receive loop is in step s with n bytes stored or wanted.
Fits(s, n) == (s = "function" => n = 8) /\ (s = "meta" => n >= 9)

Steps == {"function", "meta", "data"}

OTyped ==
    /\ t_id \in 0 .. TidMod - 1 /\ nb \in Nat /\ length_to_read \in Nat
    /\ pc \in {"idle", "recv", "sleep"} /\ step \in Steps
    /\ msg \in Seq(Nat) /\ rx \in Seq(Nat) /\ coming \in Seq(Nat) /\ own \in Seq(Nat)
    /\ pending \in Seq([tid : 0 .. TidMod - 1, nb : Quantities])

InCall ==
    /\ pc = "recv" => nb \in Quantities /\ Fits(step, Len(msg) + length_to_read)
    /\ pc = "sleep" => errno # "OK"

Taken == (pc = "idle" /\ errno = "OK" /\ nb # 0) => (msg = own /\ pending = <<>>)

OInv ==
    /\ OTyped /\ InCall /\ Taken
    /\ Requested(pending, t_id, nb)
    /\ Marks(Stream, Len(pending), t_id, own, nb)

-----------------------------------------------------------------------------
\* What is known of all marks is known of those in the rest.
LEMMA MarksRest ==
    ASSUME NEW u \in Seq(Nat), NEW t \in Seq(Nat), NEW n \in Nat, NEW id \in Nat,
           NEW o, NEW q \in Nat, Marks(u \o t, n, id, o, q)
    PROVE  Marks(t, n, id, o, q)
<1> DEFINE s == u \o t
           c == Len(u)
<1>1. /\ s \in Seq(Nat) /\ c \in Nat /\ Len(t) \in Nat /\ Len(s) = c + Len(t)
      /\ \A i \in 1 .. Len(t) : s[c + i] = t[i]
  BY Joined
<1>2. Marks(s, n, id, o, q)
  OBVIOUS
<1> DEFINE len == Len(t)
<1> HIDE DEF s, c, len
<1>3. ASSUME NEW i, Mark(t, i) PROVE Known(t, i, n, id, o, q)
  <2>1. i \in 8 .. Len(t) - 1 /\ t[i] = 3 /\ t[i + 1] \div 2 \in Quantities
    BY <1>3 DEF Mark
  <2>2. /\ i \in 1 .. Len(t) /\ i + 1 \in 1 .. Len(t) /\ i - 6 \in 1 .. Len(t)
        /\ c + i \in 8 .. Len(s) - 1 /\ (c + i) + 1 = c + (i + 1) /\ (c + i) - 6 = c + (i - 6)
    <3>1. i \in 8 .. len - 1 /\ len \in Nat /\ c \in Nat /\ Len(s) = c + len
      BY <1>1, <2>1 DEF len
    <3>2. /\ i \in 1 .. len /\ i + 1 \in 1 .. len /\ i - 6 \in 1 .. len
          /\ c + i \in 8 .. (c + len) - 1
          /\ (c + i) + 1 = c + (i + 1) /\ (c + i) - 6 = c + (i - 6)
      BY <3>1
    <3> QED
      BY <3>1, <3>2 DEF len
  <2>3. s[c + i] = t[i] /\ s[(c + i) + 1] = t[i + 1] /\ s[(c + i) - 6] = t[i - 6]
    <3>1. s[c + i] = t[i] /\ s[c + (i + 1)] = t[i + 1] /\ s[c + (i - 6)] = t[i - 6]
      BY <1>1, <2>2, Zenon
    <3> QED
      BY <2>2, <3>1, Zenon
  <2>4. Mark(s, c + i)
    BY <2>1, <2>2, <2>3 DEF Mark
  <2>5. Known(s, c + i, n, id, o, q)
    BY <1>2, <2>4 DEF Marks
  <2>6. PICK age \in Nat :
               /\ n <= age /\ 9 * age <= 9 * n + Len(s) - ((c + i) + 1)
               /\ Carries(s[(c + i) - 6], age, id)
               /\ age = 0 => Whole(s, c + i, o, q)
    BY <2>5 DEF Known
  <2>7. 9 * age <= 9 * n + Len(t) - (i + 1)
    BY <1>1, <2>1, <2>6
  <2>8. ASSUME age = 0 PROVE Whole(t, i, o, q)
    <3>1. /\ Len(o) = 9 + 2 * q /\ ((c + i) - 8) + Len(o) <= Len(s)
          /\ \A k \in 1 .. Len(o) : o[k] = s[((c + i) - 8) + k]
      BY <2>6, <2>8 DEF Whole
    <3>2. (i - 8) + Len(o) <= Len(t)
      BY <1>1, <2>1, <3>1
    <3>3. ASSUME NEW k \in 1 .. Len(o) PROVE o[k] = t[(i - 8) + k]
      <4>1. ((c + i) - 8) + k = c + ((i - 8) + k) /\ (i - 8) + k \in 1 .. Len(t)
        BY <1>1, <2>1, <3>1, <3>2
      <4> QED
        BY <1>1, <3>1, <4>1
    <3> QED
      BY <3>1, <3>2, <3>3 DEF Whole
  <2> QED
    BY <2>3, <2>6, <2>7, <2>8 DEF Known
<1> QED
  BY <1>3 DEF Marks

\* A call more.
LEMMA CarriesMore ==
    ASSUME NEW tid, NEW age \in Nat, NEW id \in 0 .. TidMod - 1,
           age + 1 < TidMod, Carries(tid, age, id)
    PROVE  Carries(tid, age + 1, IF id < TidMod - 1 THEN id + 1 ELSE 0)
<1>1. TidMod \in Nat /\ id \in Nat /\ id <= TidMod - 1
  BY StreamAssumption
<1>2. tid \in Nat /\ tid < TidMod /\ (tid + age = id \/ tid + age = id + TidMod)
  BY <1>1 DEF Carries
<1>3. CASE id < TidMod - 1
  <2>1. tid + (age + 1) = id + 1 \/ tid + (age + 1) = (id + 1) + TidMod
    BY <1>1, <1>2
  <2> QED
    BY <1>3, <2>1 DEF Carries
<1>4. CASE ~(id < TidMod - 1)
  <2>1. tid + (age + 1) = 0 + TidMod
    BY <1>1, <1>2, <1>4
  <2> QED
    BY <1>4, <2>1 DEF Carries
<1> QED
  BY <1>3, <1>4

LEMMA MarksAged ==
    ASSUME NEW s \in Seq(Nat), NEW n \in Nat, NEW id \in 0 .. TidMod - 1,
           NEW o, NEW q \in Nat, NEW o2, NEW q2 \in Nat, Marks(s, n, id, o, q),
           Few(s, n + 1)
    PROVE  Marks(s, n + 1, IF id < TidMod - 1 THEN id + 1 ELSE 0, o2, q2)
<1> DEFINE next == IF id < TidMod - 1 THEN id + 1 ELSE 0
<1>1. Len(s) \in Nat /\ TidMod \in Nat /\ id \in Nat
  BY LenProperties, StreamAssumption
<1>2. ASSUME NEW i, Mark(s, i) PROVE Known(s, i, n + 1, next, o2, q2)
  <2>1. PICK age \in Nat :
               /\ n <= age /\ 9 * age <= 9 * n + Len(s) - (i + 1)
               /\ Carries(s[i - 6], age, id)
    BY <1>2 DEF Marks, Known
  <2>2. i \in 8 .. Len(s) - 1 /\ i - 6 \in 1 .. Len(s)
    BY <1>1, <1>2 DEF Mark
  <2>3. age + 1 < TidMod
    <3>1. Len(s) + 9 * (n + 1) < 9 * (TidMod + 1)
      BY Zenon DEF Few
    <3> QED
      BY <1>1, <2>1, <2>2, <3>1
  <2>4. Carries(s[i - 6], age + 1, next)
    BY <2>1, <2>3, CarriesMore
  <2>5. /\ age + 1 \in Nat /\ age + 1 # 0 /\ n + 1 <= age + 1
        /\ 9 * (age + 1) <= 9 * (n + 1) + Len(s) - (i + 1)
    BY <1>1, <2>1, <2>2
  <2> HIDE DEF next
  <2> QED
    BY <2>4, <2>5 DEF Known
<1> QED
  BY <1>2 DEF Marks

\* Bytes are naturals.
LEMMA BytesAreNat ==
    ASSUME NEW d \in Seq(0 .. 255)
    PROVE  d \in Seq(Nat)
<1>1. Len(d) \in Nat /\ \A i \in 1 .. Len(d) : d[i] \in 0 .. 255
  BY LenProperties, ElementOfSeq
<1>2. \A i \in 1 .. Len(d) : d[i] \in Nat
  <2>1. 0 .. 255 \subseteq Nat
    OBVIOUS
  <2> QED
    BY <1>1, <2>1, Zenon
<1>3. SubSeq(d, 1, Len(d)) \in Seq(Nat)
  BY <1>1, <1>2, SubSeqProperties
<1>4. SubSeq(d, 1, Len(d)) = d
  BY SubSeqFull
<1> QED
  BY <1>3, <1>4

\* The header of an answer, with what follows, has no mark before its end.
LEMMA HeaderMarks ==
    ASSUME NEW tid \in Nat, NEW m \in Nat, NEW f \in Seq(Nat), Len(f) = 2
    PROVE  LET g == Header(tid, m) \o f
           IN  /\ g \in Seq(Nat) /\ Len(g) = 9 /\ g[8] = f[1] /\ g[9] = f[2]
               /\ \A k \in 1 .. 7 : ~(g[k] = 3 /\ g[k + 1] \div 2 \in Quantities)
<1> DEFINE h == Header(tid, m)
           g == h \o f
<1>1. /\ h \in Seq(Nat) /\ Len(h) = 7
      /\ h[1] = 0 /\ h[3] = 0 /\ h[4] = 0 /\ h[5] = 0 /\ h[7] = 255
  BY DEF Header
<1> HIDE DEF h
<1>2. /\ g \in Seq(Nat) /\ Len(g) = Len(h) + Len(f)
      /\ \A i \in 1 .. Len(h) : g[i] = h[i]
      /\ \A i \in 1 .. Len(f) : g[Len(h) + i] = f[i]
  <2>1. h \in Seq(Nat) /\ f \in Seq(Nat)
    BY <1>1
  <2> QED
    BY <2>1, Joined, Zenon
<1> HIDE DEF g
<1>3. g[7 + 1] = f[1] /\ g[7 + 2] = f[2] /\ Len(g) = 7 + 2
  BY <1>1, <1>2
<1>4. g[1] = 0 /\ g[3] = 0 /\ g[4] = 0 /\ g[5] = 0 /\ g[7] = 255
  BY <1>1, <1>2
<1>5. 0 \notin Quantities /\ 127 \notin Quantities
  BY StreamAssumption
<1>6. ASSUME NEW k \in 1 .. 7, g[k] = 3, g[k + 1] \div 2 \in Quantities PROVE FALSE
  <2>1. k = 1 \/ k = 2 \/ k = 3 \/ k = 4 \/ k = 5 \/ k = 6 \/ k = 7
    OBVIOUS
  <2>2. 0 \div 2 = 0 /\ 255 \div 2 = 127
    OBVIOUS
  <2>3. CASE k = 2
    BY <1>4, <1>5, <1>6, <2>2, <2>3
  <2>4. CASE k = 6
    BY <1>4, <1>5, <1>6, <2>2, <2>4
  <2> QED
    BY <1>4, <1>6, <2>1, <2>3, <2>4
<1>7. g \in Seq(Nat) /\ Len(g) = 9 /\ g[8] = f[1] /\ g[9] = f[2]
  <2>1. 7 + 1 = 8 /\ 7 + 2 = 9
    OBVIOUS
  <2> QED
    BY <1>2, <1>3, <2>1, Zenon
<1> QED
  BY <1>6, <1>7 DEF g, h

\* The only mark an answer may have is its function code.
OneMark(a) == \A k \in 1 .. Len(a) - 1 : a[k] = 3 /\ a[k + 1] \div 2 \in Quantities => k = 8

\* The answer to a read, whose contents hide nothing, has its only mark there.
LEMMA AnswerMarks ==
    ASSUME TameContents, NEW tid \in 0 .. TidMod - 1, NEW n \in Quantities,
           NEW a \in Answers([tid |-> tid, nb |-> n])
    PROVE  IsAnswer(a, tid, n) /\ OneMark(a)
<1> DEFINE q == [tid |-> tid, nb |-> n]
<1>0. tid \in Nat /\ n \in 1 .. 125 /\ n \in Nat /\ Quantities \subseteq 1 .. 125
  BY StreamAssumption
<1>1. IsAnswer(a, tid, n)
  BY <1>0, AnswersAre
<1>3. CASE \E d \in Data : Len(d) = 2 * n /\ a = Header(tid, 3 + Len(d)) \o <<3, Len(d)>> \o d
  <2>1. PICK d \in Data :
               Len(d) = 2 * n /\ a = Header(tid, 3 + Len(d)) \o <<3, Len(d)>> \o d
    BY <1>3, Zenon
  <2>2. d \in Seq(Nat)
    BY StreamAssumption, BytesAreNat
  <2> DEFINE h == Header(tid, 3 + Len(d))
             f == <<3, Len(d)>>
             g == h \o f
  <2>3. h \in Seq(Nat) /\ f \in Seq(Nat) /\ Len(f) = 2 /\ f[1] = 3 /\ f[2] = 2 * n
    BY <1>0, <2>1 DEF Header
  <2>4. 3 + Len(d) \in Nat
    BY <1>0, <2>1
  <2>5. /\ g \in Seq(Nat) /\ Len(g) = 9 /\ g[9] = f[2]
        /\ \A k \in 1 .. 7 : ~(g[k] = 3 /\ g[k + 1] \div 2 \in Quantities)
    <3>1. tid \in Nat /\ f \in Seq(Nat) /\ Len(f) = 2
      BY <1>0, <2>3
    <3> HIDE DEF f
    <3> QED
      BY <2>4, <3>1, HeaderMarks, Zenon
  <2>6. a = g \o d
    BY <2>1
  <2> HIDE DEF g, f, h
  <2>7. /\ a \in Seq(Nat) /\ Len(a) = Len(g) + Len(d)
        /\ \A i \in 1 .. Len(g) : a[i] = g[i]
        /\ \A i \in 1 .. Len(d) : a[Len(g) + i] = d[i]
    BY <2>2, <2>5, <2>6, Joined
  <2> DEFINE len == Len(d)
  <2>8. len \in Nat /\ Len(a) = 9 + len
    BY <2>1, <2>5, <2>7
  <2>9. ASSUME NEW k \in 1 .. Len(a) - 1, a[k] = 3, a[k + 1] \div 2 \in Quantities PROVE k = 8
    <3>1. k \in Nat /\ k >= 1 /\ k <= 8 + len
      BY <2>8, <2>9
    <3>2. CASE k < 8
      <4>1. k \in 1 .. 7 /\ k \in 1 .. 9 /\ k + 1 \in 1 .. 9
        BY <3>1, <3>2
      <4>2. a[k] = g[k] /\ a[k + 1] = g[k + 1]
        BY <2>5, <2>7, <4>1
      <4> QED
        BY <2>5, <2>9, <4>1, <4>2
    <3>3. CASE k = 9
      <4>1. a[9] = 2 * n
        BY <2>3, <2>5, <2>7
      <4> QED
        BY <1>0, <2>9, <3>3, <4>1
    <3>4. CASE k > 9
      <4> DEFINE i == k - 9
      <4>1. i \in 1 .. len - 1 /\ i \in 1 .. len /\ i + 1 \in 1 .. len
            /\ 9 + i = k /\ 9 + (i + 1) = k + 1
        BY <2>8, <3>1, <3>4
      <4> HIDE DEF i
      <4>2. a[9 + i] = d[i] /\ a[9 + (i + 1)] = d[i + 1]
        BY <2>5, <2>7, <4>1
      <4>3. d[i] = 3 /\ d[i + 1] \div 2 \in Quantities
        BY <2>9, <4>1, <4>2
      <4> QED
        BY <4>1, <4>3 DEF TameContents
    <3> QED
      BY <3>1, <3>2, <3>3, <3>4
  <2> QED
    BY <1>1, <2>9 DEF OneMark
<1>4. CASE a = Header(tid, 3) \o <<131, 2>>
  <2> DEFINE h == Header(tid, 3)
             f == <<131, 2>>
  <2>1. h \in Seq(Nat) /\ f \in Seq(Nat) /\ Len(f) = 2 /\ f[1] = 131
    BY <1>0 DEF Header
  <2>2. /\ Len(h \o f) = 9
        /\ \A k \in 1 .. 7 : ~((h \o f)[k] = 3 /\ (h \o f)[k + 1] \div 2 \in Quantities)
    <3> HIDE DEF f
    <3>1. 3 \in Nat /\ tid \in Nat /\ f \in Seq(Nat) /\ Len(f) = 2
      BY <1>0, <2>1
    <3> HIDE DEF f
    <3> QED
      BY <3>1, HeaderMarks, Zenon
  <2>3. ASSUME NEW k \in 1 .. Len(a) - 1, a[k] = 3, a[k + 1] \div 2 \in Quantities PROVE k = 8
    <3>1. a = h \o f
      BY <1>4
    <3> HIDE DEF h, f
    <3>2. k \in 1 .. 7 \/ k = 8
      BY <2>2, <2>3, <3>1
    <3> QED
      BY <2>2, <2>3, <3>1, <3>2
  <2> QED
    BY <1>1, <2>3 DEF OneMark
<1>5. FC_READ_HOLDING_REGISTERS = 3 /\ FC_READ_HOLDING_REGISTERS + 128 = 131
  BY DEF FC_READ_HOLDING_REGISTERS
<1>6. q.tid = tid /\ q.nb = n /\ a \in Answers(q)
  OBVIOUS
<1> HIDE DEF q
<1>7. \/ \E d \in Data : Len(d) = 2 * n /\ a = Header(tid, 3 + Len(d)) \o <<3, Len(d)>> \o d
      \/ a = Header(tid, 3) \o <<131, 2>>
  BY <1>5, <1>6, Zenon DEF Answers
<1> QED
  BY <1>3, <1>4, <1>7, Zenon

\* A whole answer in front of what follows is a whole answer.
LEMMA WholeMore ==
    ASSUME NEW s \in Seq(Nat), NEW a \in Seq(Nat), NEW i \in 8 .. Len(s), NEW o,
           NEW q \in Nat, Whole(s, i, o, q)
    PROVE  Whole(s \o a, i, o, q)
<1> DEFINE t == s \o a
<1>1. /\ Len(s) \in Nat /\ Len(a) \in Nat /\ Len(t) = Len(s) + Len(a)
      /\ \A j \in 1 .. Len(s) : t[j] = s[j]
  BY Joined
<1> HIDE DEF t
<1>2. /\ Len(o) = 9 + 2 * q /\ (i - 8) + Len(o) <= Len(s)
      /\ \A k \in 1 .. Len(o) : o[k] = s[(i - 8) + k]
  BY DEF Whole
<1>3. (i - 8) + Len(o) <= Len(t)
  BY <1>1, <1>2
<1>4. ASSUME NEW k \in 1 .. Len(o) PROVE o[k] = t[(i - 8) + k]
  <2>1. (i - 8) + k \in 1 .. Len(s)
    BY <1>1, <1>2
  <2> QED
    BY <1>1, <1>2, <2>1
<1>5. Whole(t, i, o, q)
  BY <1>2, <1>3, <1>4 DEF Whole
<1> QED
  BY <1>5 DEF t

\* The oldest request that had no answer is answered.
LEMMA MarksAnswered ==
    ASSUME NEW s \in Seq(Nat), NEW n \in Nat, NEW id \in Nat, NEW o, NEW q \in Nat,
           Marks(s, n + 1, id, o, q),
           NEW tid \in 0 .. TidMod - 1, Carries(tid, n, id),
           NEW m \in Quantities, n = 0 => m = q,
           NEW a, IsAnswer(a, tid, m), OneMark(a)
    PROVE  Marks(s \o a, n, id, IF n = 0 THEN a ELSE o, q)
<1> DEFINE t == s \o a
           new == IF n = 0 THEN a ELSE o
           c == Len(s)
           len == Len(a)
<1>1. /\ m \in 1 .. 125 /\ a \in Seq(Nat) /\ a[1] = 0 /\ a[2] = tid /\ len \in Nat
      /\ a[8] = 3 => len = 9 + 2 * m
      /\ len >= 9
  <2>1. /\ a \in Seq(Nat) /\ a[1] = 0 /\ a[2] = tid
        /\ (a[8] = 3 /\ Len(a) = 9 + 2 * m) \/ (a[8] = 131 /\ Len(a) = 9)
    BY Zenon DEF IsAnswer
  <2>2. m \in 1 .. 125 /\ 9 + 2 * m \in Nat /\ 9 + 2 * m >= 9
    BY StreamAssumption
  <2>3. CASE a[8] = 3 /\ Len(a) = 9 + 2 * m
    BY <2>1, <2>2, <2>3
  <2>4. CASE a[8] = 131 /\ Len(a) = 9
    <3>1. 131 # 3 /\ 9 \in Nat /\ 9 >= 9
      OBVIOUS
    <3> QED
      BY <2>1, <2>2, <2>4, <3>1, Zenon
  <2> QED
    BY <2>1, <2>3, <2>4, Zenon
<1>2. /\ t \in Seq(Nat) /\ c \in Nat /\ Len(t) = c + len
      /\ \A i \in 1 .. c : t[i] = s[i]
      /\ \A i \in 1 .. len : t[c + i] = a[i]
  BY <1>1, Joined
<1>3. 0 \div 2 \notin Quantities
  BY StreamAssumption
<1> HIDE DEF t, new, c, len
<1>0. c \in Nat /\ len \in Nat /\ len >= 9
  BY <1>1, <1>2
<1>4. ASSUME NEW i, Mark(t, i) PROVE Known(t, i, n, id, new, q)
  <2>1. /\ i \in 8 .. (c + len) - 1 /\ t[i] = 3 /\ t[i + 1] \div 2 \in Quantities
    BY <1>2, <1>4 DEF Mark
  <2>2. CASE i < c
    <3>1. /\ i \in 1 .. c /\ i + 1 \in 1 .. c /\ i - 6 \in 1 .. c /\ i \in 8 .. c - 1
      BY <1>2, <2>1, <2>2
    <3>2. t[i] = s[i] /\ t[i + 1] = s[i + 1] /\ t[i - 6] = s[i - 6]
      BY <1>2, <3>1, Zenon
    <3>3. Mark(s, i)
      BY <2>1, <3>1, <3>2 DEF Mark, c
    <3>4. PICK age \in Nat :
                 /\ n + 1 <= age /\ 9 * age <= 9 * (n + 1) + c - (i + 1)
                 /\ Carries(s[i - 6], age, id)
      BY <3>3 DEF Marks, Known, c
    <3>5. n <= age /\ age # 0 /\ 9 * age <= 9 * n + (c + len) - (i + 1)
      <4>1. i \in Nat /\ n + 1 <= age /\ 9 * age <= 9 * (n + 1) + c - (i + 1)
        BY <3>1, <3>4
      <4> QED
        BY <1>0, <4>1
    <3> QED
      BY <1>2, <3>2, <3>4, <3>5 DEF Known
  <2>3. CASE i = c
    <3>1. 1 \in 1 .. len
      BY <1>1
    <3>2. t[c + 1] = a[1]
      BY <1>2, <3>1, Zenon
    <3> QED
      BY <1>1, <1>3, <2>1, <2>3, <3>2
  <2>4. CASE i > c
    <3> DEFINE k == i - c
    <3>1. /\ k \in 1 .. len - 1 /\ k \in 1 .. len /\ k + 1 \in 1 .. len
          /\ c + k = i /\ c + (k + 1) = i + 1
      BY <1>1, <1>2, <2>1, <2>4
    <3> HIDE DEF k
    <3>2. t[i] = a[k] /\ t[i + 1] = a[k + 1]
      BY <1>2, <3>1
    <3>3. k = 8
      BY <2>1, <3>1, <3>2 DEF OneMark, len
    <3>4. i = c + 8 /\ i - 6 = c + 2 /\ i - 8 = c /\ 2 \in 1 .. len
      BY <1>0, <3>1, <3>3
    <3>5. t[i - 6] = tid
      BY <1>1, <1>2, <3>4
    <3>6. n <= n /\ 9 * n <= 9 * n + (c + len) - (i + 1)
      BY <1>0, <3>4
    <3>7. ASSUME n = 0 PROVE Whole(t, i, new, q)
      <4>1. new = a /\ m = q
        BY <3>7 DEF new
      <4>2. a[8] = 3
        BY <2>1, <3>2, <3>3
      <4>3. Len(a) = 9 + 2 * q /\ (i - 8) + Len(a) <= Len(t)
        BY <1>1, <1>2, <3>4, <4>1, <4>2 DEF len
      <4>4. \A j \in 1 .. Len(a) : a[j] = t[(i - 8) + j]
        BY <1>2, <3>4 DEF len
      <4> QED
        BY <4>1, <4>3, <4>4 DEF Whole
    <3> QED
      BY <1>2, <3>5, <3>6, <3>7 DEF Known
  <2> QED
    BY <1>2, <2>1, <2>2, <2>3, <2>4
<1>5. Marks(t, n, id, new, q)
  BY <1>4 DEF Marks
<1> QED
  BY <1>5 DEF t, new

\* What passes check_confirmation is the answer to the last request.
LEMMA MarksTaken ==
    ASSUME NEW m \in Seq(Nat), NEW t \in Seq(Nat), NEW n \in Nat, NEW id \in 0 .. TidMod - 1,
           NEW o \in Seq(Nat), NEW q \in Quantities, Marks(m \o t, n, id, o, q),
           Few(m \o t, n), Accepted(m, id, q)
    PROVE  n = 0 /\ m = o
<1> DEFINE s == m \o t
<1>1. /\ Len(m) \in Nat /\ Len(t) \in Nat /\ Len(s) = Len(m) + Len(t)
      /\ \A i \in 1 .. Len(m) : s[i] = m[i]
  BY Joined
<1>2. Marks(s, n, id, o, q) /\ Len(s) + 9 * n < 9 * (TidMod + 1)
  BY Zenon DEF Few
<1> HIDE DEF s
<1>3. q \in 1 .. 125 /\ TidMod \in Nat /\ id \in Nat
      /\ Len(m) = 9 + 2 * q /\ m[2] = id /\ m[8] = 3 /\ m[9] \div 2 = q
  BY StreamAssumption DEF Accepted
<1>4. 8 \in 8 .. Len(s) - 1 /\ 2 \in 1 .. Len(m) /\ 8 \in 1 .. Len(m) /\ 9 \in 1 .. Len(m)
  BY <1>1, <1>3
<1>5. s[2] = id /\ s[8] = 3 /\ s[8 + 1] \div 2 = q
  BY <1>1, <1>3, <1>4
<1>6. Mark(s, 8)
  BY <1>4, <1>5 DEF Mark
<1>7. PICK age \in Nat :
             /\ n <= age /\ 9 * age <= 9 * n + Len(s) - (8 + 1)
             /\ Carries(s[8 - 6], age, id)
             /\ age = 0 => Whole(s, 8, o, q)
  BY <1>2, <1>6 DEF Marks, Known
<1>8. age < TidMod
  BY <1>1, <1>2, <1>3, <1>7
<1>9. age = 0
  <2>1. 8 - 6 = 2
    OBVIOUS
  <2>2. Carries(id, age, id)
    BY <1>5, <1>7, <2>1, Zenon
  <2> QED
    BY <1>3, <1>8, <2>2 DEF Carries
<1>10. Len(o) = 9 + 2 * q /\ \A k \in 1 .. Len(o) : o[k] = s[k]
  BY <1>7, <1>9 DEF Whole
<1>11. Len(m) = Len(o) /\ \A k \in 1 .. Len(m) : m[k] = o[k]
  BY <1>1, <1>3, <1>10
<1>12. m = o
  BY <1>11, SeqEqual
<1> QED
  BY <1>7, <1>9, <1>12

-----------------------------------------------------------------------------
(***************************************************************************)
(* What the client makes of the bytes it has stored.                       *)
(***************************************************************************)
\* A success is a message with the identifier and the byte count of the request.
LEMMA Confirmed ==
    ASSUME NEW m, nb \in Quantities, check_confirmation(m)
    PROVE  /\ pc' \in {"idle", "sleep"}
           /\ pc' = "sleep" => errno' # "OK"
           /\ errno' = "OK" => Accepted(m, t_id, nb)
<1> DEFINE Refuse(s) == IF ProtocolRecovery THEN Sleep("EMBBADDATA", s)
                                            ELSE Return("EMBBADDATA")
<1>1. TCP.header_length + 1 = 8 /\ TCP.header_length + 2 = 9
  BY DEF TCP
<1>2. ASSUME NEW s, Refuse(s)
      PROVE  pc' \in {"idle", "sleep"} /\ errno' # "OK"
  BY <1>2 DEF Return, Sleep
<1>3. /\ Return("EXCEPTION") \/ Return("EMBBADEXC") => pc' = "idle" /\ errno' # "OK"
      /\ Return("OK") => pc' = "idle"
  BY DEF Return
<1>4. compute_response_length_from_request(TCP, FC_READ_HOLDING_REGISTERS, nb) = 9 + 2 * nb
  BY StreamAssumption, ReadLength
<1>5. FC_READ_HOLDING_REGISTERS = 3
  BY DEF FC_READ_HOLDING_REGISTERS
<1>6. \/ Refuse(FALSE) \/ Refuse(TRUE) \/ Return("EXCEPTION") \/ Return("EMBBADEXC")
      \/ Accepted(m, t_id, nb) /\ Return("OK")
  BY <1>1, <1>4, <1>5, Zenon DEF check_confirmation, Accepted
<1> HIDE DEF Refuse
<1>7. "idle" \in {"idle", "sleep"} /\ "idle" # "sleep"
  OBVIOUS
<1> QED
  BY <1>2, <1>3, <1>6, <1>7, Zenon

LEMMA MetaIs ==
    ASSUME NEW fn
    PROVE  compute_meta_length_after_function(fn, "confirmation") \in Nat \ {0}
BY DEF compute_meta_length_after_function

LEMMA DataIsNat ==
    ASSUME NEW fn, NEW count \in Nat
    PROVE  compute_data_length_after_meta(TCP, fn, count, "confirmation") \in Nat
<1>1. TCP.checksum_length = 0
  BY DEF TCP
<1> QED
  BY <1>1 DEF compute_data_length_after_meta

\* A step that is complete is followed by the next one or by the end of the call.
LEMMA Completed ==
    ASSUME NEW m \in Seq(Nat), nb \in Quantities, step \in Steps,
           length_to_read \in Nat, pc = "recv", Fits(step, Len(m)), StepComplete(m)
    PROVE  /\ step' \in Steps /\ length_to_read' \in Nat
           /\ \/ pc' = "recv" /\ Fits(step', Len(m) + length_to_read')
              \/ pc' = "idle" \/ (pc' = "sleep" /\ errno' # "OK")
           /\ pc' = "idle" /\ errno' = "OK" => Accepted(m, t_id, nb)
<1> DEFINE Next1 == /\ step' \in Steps /\ length_to_read' \in Nat
                    /\ \/ pc' = "recv" /\ Fits(step', Len(m) + length_to_read')
                       \/ pc' = "idle" \/ (pc' = "sleep" /\ errno' # "OK")
                    /\ pc' = "idle" /\ errno' = "OK" => Accepted(m, t_id, nb)
<1>1. Len(m) \in Nat
  BY LenProperties
<1>2. TCP.header_length + 2 = 9
  BY DEF TCP
<1>3. ASSUME Complete(m) PROVE Next1
  <2>1. length_to_read' = 0 /\ step' = step /\ check_confirmation(m)
    BY <1>3 DEF Complete
  <2>2. 0 \in Nat
    OBVIOUS
  <2> QED
    BY <2>1, <2>2, Confirmed, Zenon
<1>4. CASE step = "function"
  <2> DEFINE meta == compute_meta_length_after_function(m[TCP.header_length + 1], "confirmation")
  <2>1. meta \in Nat \ {0}
    BY MetaIs
  <2>2. Wait("meta", meta)
    BY <1>4 DEF StepComplete
  <2> HIDE DEF meta
  <2>3. pc' = "recv" /\ step' = "meta" /\ length_to_read' = meta /\ Len(m) = 8
    BY <1>4, <2>2 DEF Wait, Fits
  <2> QED
    BY <2>1, <2>3 DEF Fits, Steps
<1>5. CASE step = "meta"
  <2> DEFINE data == compute_data_length_after_meta(TCP, m[TCP.header_length + 1],
                                    m[TCP.header_length + 2], "confirmation")
  <2>1. m[9] \in Nat
    <3>1. 9 \in 1 .. Len(m)
      BY <1>1, <1>5 DEF Fits
    <3> QED
      BY <3>1, ElementOfSeq, Zenon
  <2>2. data \in Nat
    BY <1>2, <2>1, DataIsNat
  <2>3. \/ Return("EMBBADDATA") /\ UNCHANGED <<step, length_to_read>>
        \/ Complete(m)
        \/ Wait("data", data)
    BY <1>5, Zenon DEF StepComplete, EnterData
  <2> HIDE DEF data
  <2>4. CASE Return("EMBBADDATA") /\ UNCHANGED <<step, length_to_read>>
    BY <2>4 DEF Return
  <2>5. CASE Wait("data", data)
    BY <2>2, <2>5 DEF Wait, Fits, Steps
  <2> QED
    BY <1>3, <2>3, <2>4, <2>5, Zenon
<1>6. CASE step = "data"
  BY <1>3, <1>6 DEF StepComplete
<1> QED
  BY <1>4, <1>5, <1>6, Zenon DEF Steps

-----------------------------------------------------------------------------
(***************************************************************************)
(* Every step keeps track of the marks.                                    *)
(***************************************************************************)
LEMMA RequestedMore ==
    ASSUME NEW reqs \in Seq([tid : 0 .. TidMod - 1, nb : Quantities]),
           NEW id \in 0 .. TidMod - 1, NEW q, Requested(reqs, id, q),
           Len(reqs) < TidMod, NEW q2 \in Quantities,
           NEW id2 \in 0 .. TidMod - 1, id2 = IF id < TidMod - 1 THEN id + 1 ELSE 0
    PROVE  Requested(Append(reqs, [tid |-> id2, nb |-> q2]), id2, q2)
<1> DEFINE r == [tid |-> id2, nb |-> q2]
           new == Append(reqs, r)
           n == Len(reqs)
<1>1. r \in [tid : 0 .. TidMod - 1, nb : Quantities] /\ r = [tid |-> r.tid, nb |-> r.nb]
      /\ r.tid = id2 /\ r.nb = q2
  OBVIOUS
<1>2. n \in Nat /\ TidMod \in Nat /\ id2 \in Nat
  BY LenProperties, StreamAssumption
<1> HIDE DEF r
<1>3. /\ Len(new) = n + 1 /\ new[n + 1] = r
      /\ \A j \in 1 .. n : new[j] = reqs[j]
  BY <1>1, AppendProperties
<1> HIDE DEF new
<1>4. ASSUME NEW j \in 1 .. Len(new)
      PROVE  /\ new[j] = [tid |-> new[j].tid, nb |-> new[j].nb]
             /\ new[j].nb \in Quantities /\ Carries(new[j].tid, Len(new) - j, id2)
  <2>1. CASE j = n + 1
    <3>1. Len(new) - j = 0 /\ new[j] = r
      BY <1>2, <1>3, <2>1
    <3>2. Carries(id2, 0, id2)
      BY <1>2 DEF Carries
    <3> QED
      BY <1>1, <3>1, <3>2
  <2>2. CASE j # n + 1
    <3>1. j \in 1 .. n /\ n - j \in Nat /\ (n - j) + 1 < TidMod /\ Len(new) - j = (n - j) + 1
      BY <1>2, <1>3, <2>2
    <3>2. /\ reqs[j] = [tid |-> reqs[j].tid, nb |-> reqs[j].nb]
          /\ reqs[j].nb \in Quantities /\ Carries(reqs[j].tid, n - j, id)
      BY <3>1 DEF Requested
    <3>3. Carries(reqs[j].tid, (n - j) + 1, id2)
      BY <3>1, <3>2, CarriesMore
    <3>4. new[j] = reqs[j]
      BY <1>3, <3>1
    <3> QED
      BY <3>1, <3>2, <3>3, <3>4, Zenon
  <2> QED
    BY <2>1, <2>2
<1>5. new[Len(new)].nb = q2
  BY <1>1, <1>3
<1>6. Requested(new, id2, q2)
  BY <1>4, <1>5 DEF Requested
<1> QED
  BY <1>6 DEF new, r

LEMMA OwnCall ==
    ASSUME OInv, Recent', NEW q \in Quantities, Call(q)
    PROVE  OInv'
<1> DEFINE n == Len(pending)
           r == [tid |-> NextTid, nb |-> q]
<1>1. OTyped /\ Requested(pending, t_id, nb) /\ Marks(Stream, n, t_id, own, nb)
  BY DEF OInv
<1>2. /\ pc = "idle" /\ pc' = "recv" /\ t_id' = NextTid /\ nb' = q
      /\ pending' = Append(pending, r)
      /\ step' = "function" /\ msg' = <<>> /\ length_to_read' = 8
      /\ own' = <<>> /\ UNCHANGED <<coming, rx, errno>>
  BY DEF Call, TCP
<1>3. t_id \in 0 .. TidMod - 1 /\ NextTid \in 0 .. TidMod - 1 /\ q \in Nat /\ nb \in Nat
      /\ TidMod \in Nat
  BY <1>1, StreamAssumption DEF OTyped, NextTid
<1>4. rx \in Seq(Nat) /\ coming \in Seq(Nat)
      /\ pending \in Seq([tid : 0 .. TidMod - 1, nb : Quantities])
  BY <1>1 DEF OTyped
<1>5. r \in [tid : 0 .. TidMod - 1, nb : Quantities]
  BY <1>3
<1> HIDE DEF r
<1>6. /\ pending' \in Seq([tid : 0 .. TidMod - 1, nb : Quantities])
      /\ n \in Nat /\ Len(pending') = n + 1
  BY <1>2, <1>4, <1>5, AppendProperties, LenProperties
<1>7. Stream \in Seq(Nat) /\ Stream' = Stream
  <2>1. rx \o coming \in Seq(Nat)
    BY <1>4, ConcatProperties
  <2>2. Stream = rx \o coming /\ Stream' = <<>> \o (rx \o coming)
    BY <1>2, Zenon DEF Stream
  <2> QED
    BY <2>1, <2>2, ConcatEmptySeq
<1>8. Few(Stream, n + 1)
  BY <1>6, <1>7, Zenon DEF Recent
<1>9. Marks(Stream', Len(pending'), t_id', own', nb')
  <2>1. Marks(Stream, n + 1, IF t_id < TidMod - 1 THEN t_id + 1 ELSE 0, <<>>, q)
    BY <1>1, <1>3, <1>6, <1>7, <1>8, MarksAged, Zenon
  <2> QED
    BY <1>2, <1>6, <1>7, <2>1, Zenon DEF NextTid
<1>10. Requested(pending', t_id', nb')
  <2>1. n < TidMod
    <3>1. Len(Stream) \in Nat
      BY <1>7, LenProperties
    <3> QED
      BY <1>3, <1>6, <1>8, <3>1 DEF Few
  <2>2. Requested(Append(pending, r), NextTid, q)
    BY <1>1, <1>3, <1>4, <2>1, RequestedMore, Zenon DEF r, NextTid
  <2> QED
    BY <1>2, <2>2, Zenon
<1>11. OTyped'
  <2>1. 8 \in Nat /\ <<>> \in Seq(Nat) /\ "recv" \in {"idle", "recv", "sleep"}
        /\ "function" \in Steps
    BY EmptySeq DEF Steps
  <2> QED
    BY <1>2, <1>3, <1>4, <1>6, <2>1, Zenon DEF OTyped
<1>12. InCall' /\ Taken'
  BY <1>2 DEF InCall, Taken, Fits
<1>13. pc' = "recv"
  BY <1>2
<1> QED
  BY <1>9, <1>10, <1>11, <1>12, Zenon DEF OInv

\* What the client reads is a sequence of numbers, and what is added to what is
\* under way is added to its end.
LEMMA StreamMore ==
    ASSUME OTyped, NEW a \in Seq(Nat)
    PROVE  /\ Stream \in Seq(Nat) /\ coming \o a \in Seq(Nat)
           /\ Stream \o a = IF pc = "recv" THEN msg \o (rx \o (coming \o a))
                                           ELSE rx \o (coming \o a)
<1>1. msg \in Seq(Nat) /\ rx \in Seq(Nat) /\ coming \in Seq(Nat)
  BY DEF OTyped
<1>2. Cat(rx, coming) \in Seq(Nat) /\ Cat(coming, a) \in Seq(Nat)
      /\ Cat(Cat(rx, coming), a) = Cat(rx, Cat(coming, a))
  BY <1>1, CatLaws
<1>3. Cat(msg, Cat(rx, coming)) \in Seq(Nat)
      /\ Cat(Cat(msg, Cat(rx, coming)), a) = Cat(msg, Cat(rx, Cat(coming, a)))
  BY <1>1, <1>2, CatLaws
<1>4. CASE pc = "recv"
  BY <1>2, <1>3, <1>4, Zenon DEF Cat, Stream
<1>5. CASE pc # "recv"
  BY <1>2, <1>5, Zenon DEF Cat, Stream
<1> QED
  BY <1>4, <1>5, Zenon

LEMMA RequestedRest ==
    ASSUME NEW reqs \in Seq([tid : 0 .. TidMod - 1, nb : Quantities]), reqs # <<>>,
           NEW id, NEW q, Requested(reqs, id, q)
    PROVE  Requested(Tail(reqs), id, q)
<1> DEFINE t == Tail(reqs)
           n == Len(reqs)
<1>1. /\ n \in Nat /\ n # 0 /\ Len(t) = n - 1
      /\ \A j \in 1 .. Len(t) : t[j] = reqs[j + 1]
  BY HeadTailProperties, EmptySeq, LenProperties
<1> HIDE DEF t
<1>2. ASSUME NEW j \in 1 .. Len(t)
      PROVE  /\ t[j] = [tid |-> t[j].tid, nb |-> t[j].nb]
             /\ t[j].nb \in Quantities /\ Carries(t[j].tid, Len(t) - j, id)
  <2>1. j + 1 \in 1 .. n /\ n - (j + 1) = Len(t) - j
    BY <1>1
  <2>2. /\ reqs[j + 1] = [tid |-> reqs[j + 1].tid, nb |-> reqs[j + 1].nb]
        /\ reqs[j + 1].nb \in Quantities /\ Carries(reqs[j + 1].tid, n - (j + 1), id)
    BY <2>1, Zenon DEF Requested
  <2>3. t[j] = reqs[j + 1]
    BY <1>1
  <2> QED
    BY <2>1, <2>2, <2>3, Zenon
<1>3. ASSUME Len(t) # 0 PROVE t[Len(t)].nb = q
  <2>1. Len(t) \in 1 .. Len(t) /\ Len(t) + 1 = n
    BY <1>1, <1>3
  <2>2. t[Len(t)] = reqs[n]
    BY <1>1, <2>1
  <2>3. reqs[n].nb = q
    BY <1>1, Zenon DEF Requested
  <2> QED
    BY <2>2, <2>3
<1>4. Requested(t, id, q)
  BY <1>2, <1>3 DEF Requested
<1> QED
  BY <1>4 DEF t

LEMMA OwnAnswer ==
    ASSUME TameContents, OInv, Answer
    PROVE  OInv'
<1> DEFINE n == Len(pending) - 1
           r == Head(pending)
<1>1. OTyped /\ InCall /\ Requested(pending, t_id, nb)
      /\ Marks(Stream, Len(pending), t_id, own, nb)
  BY DEF OInv
<1>2. /\ pending # <<>> /\ pending' = Tail(pending)
      /\ UNCHANGED <<pc, t_id, nb, rx, step, msg, length_to_read, errno>>
  BY DEF Answer
<1>3. PICK a \in Answers(r) :
             coming' = coming \o a /\ own' = IF Len(pending) = 1 THEN a ELSE own
  BY Zenon DEF Answer
<1>4. /\ t_id \in 0 .. TidMod - 1 /\ t_id \in Nat /\ nb \in Nat /\ own \in Seq(Nat)
      /\ pending \in Seq([tid : 0 .. TidMod - 1, nb : Quantities])
  BY <1>1, StreamAssumption DEF OTyped
<1>5. /\ Tail(pending) \in Seq([tid : 0 .. TidMod - 1, nb : Quantities])
      /\ Len(pending) \in Nat /\ Len(pending) # 0 /\ Len(Tail(pending)) = n
      /\ r = pending[1] /\ r \in [tid : 0 .. TidMod - 1, nb : Quantities]
  <2>1. Len(pending) \in Nat /\ Len(pending) # 0
    BY <1>2, <1>4, EmptySeq, LenProperties
  <2>2. 1 \in 1 .. Len(pending)
    BY <2>1
  <2>3. pending[1] \in [tid : 0 .. TidMod - 1, nb : Quantities]
    BY <1>4, <2>2, ElementOfSeq, Zenon
  <2>4. /\ r = pending[1] /\ Len(Tail(pending)) = Len(pending) - 1
        /\ Tail(pending) \in Seq([tid : 0 .. TidMod - 1, nb : Quantities])
    <3> DEFINE S == [tid : 0 .. TidMod - 1, nb : Quantities]
    <3> HIDE DEF S
    <3>1. pending \in Seq(S) /\ pending # <<>>
      BY <1>2, <1>4 DEF S
    <3>2. /\ Head(pending) = pending[1] /\ Tail(pending) \in Seq(S)
          /\ Len(Tail(pending)) = Len(pending) - 1
      BY <3>1, HeadTailProperties
    <3> QED
      BY <3>2 DEF S
  <2> QED
    BY <2>1, <2>3, <2>4, Zenon
<1>6. n \in Nat /\ n + 1 = Len(pending) /\ Len(pending) - 1 = n /\ 1 \in 1 .. Len(pending)
      /\ (Len(pending) = 1 <=> n = 0)
  BY <1>5
<1>7. /\ r = [tid |-> r.tid, nb |-> r.nb] /\ r.tid \in 0 .. TidMod - 1
      /\ r.nb \in Quantities /\ Carries(r.tid, n, t_id)
  <2>1. /\ pending[1] = [tid |-> pending[1].tid, nb |-> pending[1].nb]
        /\ pending[1].nb \in Quantities /\ Carries(pending[1].tid, Len(pending) - 1, t_id)
    BY <1>1, <1>6, Zenon DEF Requested
  <2> QED
    BY <1>5, <2>1
<1>8. n = 0 => r.nb = nb
  <2>1. pending[Len(pending)].nb = nb
    BY <1>1, <1>5, Zenon DEF Requested
  <2> QED
    BY <1>5, <1>6, <2>1, Zenon
<1> HIDE DEF n, r
<1>9. IsAnswer(a, r.tid, r.nb) /\ OneMark(a)
  <2>1. a \in Answers([tid |-> r.tid, nb |-> r.nb])
    BY <1>3, <1>7
  <2> QED
    BY <1>7, <2>1, AnswerMarks, Zenon
<1>10. a \in Seq(Nat)
  BY <1>9, Zenon DEF IsAnswer
<1>11. Stream \in Seq(Nat) /\ coming' \in Seq(Nat) /\ Stream' = Stream \o a
  <2>1. /\ Stream \in Seq(Nat) /\ coming \o a \in Seq(Nat)
        /\ Stream \o a = IF pc = "recv" THEN msg \o (rx \o (coming \o a))
                                        ELSE rx \o (coming \o a)
    BY <1>1, <1>10, StreamMore
  <2>2. Stream' = IF pc = "recv" THEN msg \o (rx \o (coming \o a)) ELSE rx \o (coming \o a)
    BY <1>2, <1>3, Zenon DEF Stream
  <2> QED
    BY <1>3, <2>1, <2>2, Zenon
<1>12. own' = (IF n = 0 THEN a ELSE own) /\ own' \in Seq(Nat)
  BY <1>3, <1>4, <1>6, <1>10
<1>13. Marks(Stream', Len(pending'), t_id', own', nb')
  <2>1. Marks(Stream, n + 1, t_id, own, nb)
    BY <1>1, <1>6, Zenon
  <2>2. Marks(Stream \o a, n, t_id, IF n = 0 THEN a ELSE own, nb)
    BY <1>4, <1>6, <1>7, <1>8, <1>9, <1>11, <2>1, MarksAnswered, Zenon
  <2> QED
    BY <1>2, <1>5, <1>11, <1>12, <2>2, Zenon
<1>14. Requested(pending', t_id', nb')
  BY <1>1, <1>2, <1>4, RequestedRest, Zenon
<1>15. OTyped'
  BY <1>1, <1>2, <1>5, <1>11, <1>12, Zenon DEF OTyped
<1>16. InCall'
  BY <1>1, <1>2, Zenon DEF InCall
\* A call that has succeeded was the last one answered.
<1>17. Taken'
  BY <1>2, Zenon DEF OInv, Taken
<1> QED
  BY <1>13, <1>14, <1>15, <1>16, <1>17, Zenon DEF OInv

LEMMA OwnArrive ==
    ASSUME OInv, NEW k \in Nat, Arrive(k)
    PROVE  OInv'
<1> DEFINE l == SubSeq(coming, 1, k)
           t == SubSeq(coming, k + 1, Len(coming))
<1>1. /\ UNCHANGED <<pc, t_id, nb, pending, step, msg, length_to_read, errno, own>>
      /\ k <= Len(coming) /\ rx' = rx \o l /\ coming' = t
  BY DEF Arrive
<1>2. /\ OTyped /\ InCall /\ Taken /\ Requested(pending, t_id, nb)
      /\ Marks(Stream, Len(pending), t_id, own, nb)
  BY DEF OInv
<1>3. msg \in Seq(Nat) /\ rx \in Seq(Nat) /\ coming \in Seq(Nat)
  BY <1>2 DEF OTyped
<1>4. k \in 0 .. Len(coming)
  BY <1>1, <1>3, LenProperties
<1>5. l \in Seq(Nat) /\ t \in Seq(Nat) /\ coming = Cat(l, t)
  BY <1>3, <1>4, CutCat, Zenon
<1> HIDE DEF l, t
<1>6. Cat(rx, l) \in Seq(Nat) /\ Cat(Cat(rx, l), t) = Cat(rx, coming)
  BY <1>3, <1>5, CatLaws
<1>7. Stream' = Stream
  <2>1. rx' \o coming' = rx \o coming
    BY <1>1, <1>6, Zenon DEF Cat
  <2> QED
    BY <1>1, <2>1, Zenon DEF Stream
<1>8. rx' \in Seq(Nat) /\ coming' \in Seq(Nat)
  BY <1>1, <1>5, <1>6, Zenon DEF Cat
<1>9. OTyped'
  BY <1>1, <1>2, <1>8, Zenon DEF OTyped
<1>10. InCall' /\ Taken'
  BY <1>1, <1>2, Zenon DEF InCall, Taken
<1>11. Requested(pending', t_id', nb') /\ Marks(Stream', Len(pending'), t_id', own', nb')
  BY <1>1, <1>2, <1>7, Zenon
<1> QED
  BY <1>9, <1>10, <1>11, Zenon DEF OInv

LEMMA OwnReceive ==
    ASSUME OInv, Recent, Receive
    PROVE  OInv'
<1> DEFINE n == IF Len(rx) < length_to_read THEN Len(rx) ELSE length_to_read
           l == SubSeq(rx, 1, n)
           r == SubSeq(rx, n + 1, Len(rx))
           m == msg \o l
           t == r \o coming
<1>1. /\ UNCHANGED <<t_id, nb, pending, coming, own>>
      /\ pc = "recv" /\ msg' = m /\ rx' = r
      /\ IF n < length_to_read THEN Wait(step, length_to_read - n) ELSE StepComplete(m)
  BY DEF Receive
<1>2. /\ OTyped /\ nb \in Quantities /\ Fits(step, Len(msg) + length_to_read)
      /\ Requested(pending, t_id, nb) /\ Marks(Stream, Len(pending), t_id, own, nb)
  BY <1>1 DEF OInv, InCall
<1>3. /\ msg \in Seq(Nat) /\ rx \in Seq(Nat) /\ coming \in Seq(Nat) /\ own \in Seq(Nat)
      /\ length_to_read \in Nat /\ t_id \in 0 .. TidMod - 1 /\ t_id \in Nat /\ nb \in Nat
      /\ step \in Steps
      /\ pending \in Seq([tid : 0 .. TidMod - 1, nb : Quantities]) /\ Len(pending) \in Nat
  BY <1>2, StreamAssumption, LenProperties DEF OTyped
<1>4. n \in 0 .. Len(rx) /\ n \in Nat /\ n <= length_to_read
      /\ (~(n < length_to_read) => n = length_to_read)
  BY <1>3, LenProperties
<1> HIDE DEF n
<1>5. l \in Seq(Nat) /\ r \in Seq(Nat) /\ Len(l) = n
  BY <1>3, <1>4, Cut, Zenon
<1>6. msg \o (rx \o coming) = m \o t
  BY <1>3, <1>4, MoveLeft, Zenon
<1> HIDE DEF l, r
<1>7. /\ m \in Seq(Nat) /\ t \in Seq(Nat) /\ Len(m) = Len(msg) + n /\ Len(msg) \in Nat
  BY <1>3, <1>5, Joined, Zenon
<1>8. Stream = m \o t
  BY <1>1, <1>6, Zenon DEF Stream
<1>9. Stream' = IF pc' = "recv" THEN m \o t ELSE t
  BY <1>1, Zenon DEF Stream
<1> HIDE DEF m, t
<1>10. Requested(pending', t_id', nb')
  BY <1>1, <1>2
<1>11. Marks(Stream', Len(pending'), t_id', own', nb')
  <2>1. Marks(m \o t, Len(pending), t_id, own, nb)
    BY <1>2, <1>8, Zenon
  <2>2. Marks(t, Len(pending), t_id, own, nb)
    BY <1>3, <1>7, <2>1, MarksRest, Zenon
  <2> QED
    BY <1>1, <1>9, <2>1, <2>2, Zenon
<1>12. CASE n < length_to_read
  <2>1. UNCHANGED <<pc, step, errno>> /\ length_to_read' = length_to_read - n
    BY <1>1, <1>12 DEF Wait
  <2>2. length_to_read' \in Nat /\ Len(msg') + length_to_read' = Len(msg) + length_to_read
    BY <1>1, <1>3, <1>4, <1>7, <2>1
  <2>3. InCall' /\ Taken'
    BY <1>1, <1>2, <2>1, <2>2 DEF InCall, Taken
  <2>4. OTyped'
    BY <1>1, <1>2, <1>5, <1>7, <2>1, <2>2, Zenon DEF OTyped
  <2> QED
    BY <1>10, <1>11, <2>3, <2>4, Zenon DEF OInv
<1>13. CASE ~(n < length_to_read)
  <2>1. Fits(step, Len(m)) /\ StepComplete(m)
    BY <1>1, <1>2, <1>4, <1>7, <1>13
  <2>2. /\ step' \in Steps /\ length_to_read' \in Nat
        /\ \/ pc' = "recv" /\ Fits(step', Len(m) + length_to_read')
           \/ pc' = "idle" \/ (pc' = "sleep" /\ errno' # "OK")
        /\ pc' = "idle" /\ errno' = "OK" => Accepted(m, t_id, nb)
    BY <1>1, <1>2, <1>3, <1>7, <2>1, Completed, Zenon
  <2>3. InCall'
    BY <1>1, <1>2, <2>2 DEF InCall
  <2>4. OTyped'
    <3>1. pc' \in {"idle", "recv", "sleep"}
      BY <2>2
    <3> QED
      BY <1>1, <1>2, <1>5, <1>7, <2>2, <3>1, Zenon DEF OTyped
  <2>5. Taken'
    <3>1. ASSUME pc' = "idle", errno' = "OK" PROVE msg' = own' /\ pending' = <<>>
      <4>1. Accepted(m, t_id, nb)
        BY <2>2, <3>1, Zenon
      <4>2. Marks(m \o t, Len(pending), t_id, own, nb)
        BY <1>2, <1>8, Zenon
      <4>3. Few(m \o t, Len(pending))
        BY <1>8, Zenon DEF Recent
      <4>4. Len(pending) = 0 /\ m = own
        <5>1. /\ m \in Seq(Nat) /\ t \in Seq(Nat) /\ Len(pending) \in Nat
              /\ t_id \in 0 .. TidMod - 1 /\ own \in Seq(Nat) /\ nb \in Quantities
          BY <1>2, <1>3, <1>7, Zenon
        <5> QED
          BY <4>1, <4>2, <4>3, <5>1, MarksTaken, Zenon
      <4> QED
        BY <1>1, <1>3, <4>4, EmptySeq
    <3> QED
      BY <3>1, Zenon DEF Taken
  <2> QED
    BY <1>10, <1>11, <2>3, <2>4, <2>5, Zenon DEF OInv
<1> QED
  BY <1>12, <1>13

LEMMA OwnTimeout ==
    ASSUME OInv, Timeout
    PROVE  OInv'
<1>1. /\ UNCHANGED <<t_id, nb, pending, coming, rx, step, msg, length_to_read, own>>
      /\ pc = "recv" /\ pc' \in {"idle", "sleep"} /\ errno' = "ETIMEDOUT"
  BY DEF Timeout, Sleep, Return
<1>2. /\ OTyped /\ Requested(pending, t_id, nb)
      /\ Marks(Stream, Len(pending), t_id, own, nb)
  BY DEF OInv
<1>3. /\ msg \in Seq(Nat) /\ rx \o coming \in Seq(Nat) /\ t_id \in Nat /\ nb \in Nat
      /\ Len(pending) \in Nat
  BY <1>2, StreamAssumption, LenProperties, ConcatProperties DEF OTyped
<1>4. Marks(Stream', Len(pending'), t_id', own', nb')
  <2>1. Marks(msg \o (rx \o coming), Len(pending), t_id, own, nb)
    BY <1>1, <1>2, Zenon DEF Stream
  <2>2. Marks(rx \o coming, Len(pending), t_id, own, nb)
    BY <1>3, <2>1, MarksRest, Zenon
  <2>3. Stream' = rx \o coming
    BY <1>1 DEF Stream
  <2> QED
    BY <1>1, <2>2, <2>3, Zenon
<1>5. OTyped' /\ InCall' /\ Taken'
  <2>1. pc' # "recv" /\ pc' \in {"idle", "recv", "sleep"} /\ errno' # "OK"
    BY <1>1
  <2> QED
    BY <1>1, <1>2, <2>1, Zenon DEF OTyped, InCall, Taken
<1> QED
  BY <1>1, <1>2, <1>4, <1>5, Zenon DEF OInv

LEMMA OwnFlush ==
    ASSUME OInv, Flush
    PROVE  OInv'
<1>1. /\ UNCHANGED <<t_id, nb, pending, coming, step, msg, length_to_read, own>>
      /\ pc = "sleep" /\ pc' = "idle" /\ rx' = <<>>
      /\ errno' = errno \/ errno' = "EAGAIN"
  BY DEF Flush
<1>2. /\ OTyped /\ InCall /\ Requested(pending, t_id, nb)
      /\ Marks(Stream, Len(pending), t_id, own, nb)
  BY DEF OInv
<1>3. /\ rx \in Seq(Nat) /\ coming \in Seq(Nat) /\ t_id \in Nat /\ nb \in Nat
      /\ Len(pending) \in Nat
  BY <1>2, StreamAssumption, LenProperties DEF OTyped
<1>4. Marks(Stream', Len(pending'), t_id', own', nb')
  <2>1. Marks(rx \o coming, Len(pending), t_id, own, nb)
    BY <1>1, <1>2, Zenon DEF Stream
  <2>2. Marks(coming, Len(pending), t_id, own, nb)
    BY <1>3, <2>1, MarksRest, Zenon
  <2>3. Stream' = <<>> \o coming
    BY <1>1 DEF Stream
  <2>4. Stream' = coming
    BY <1>3, <2>3, ConcatEmptySeq
  <2> QED
    BY <1>1, <2>2, <2>4, Zenon
<1>5. errno' # "OK"
  BY <1>1, <1>2 DEF InCall
<1>6. OTyped' /\ InCall' /\ Taken'
  <2>1. /\ pc' # "recv" /\ pc' # "sleep" /\ pc' \in {"idle", "recv", "sleep"}
        /\ <<>> \in Seq(Nat)
    BY <1>1, EmptySeq
  <2> QED
    BY <1>1, <1>2, <1>5, <2>1, Zenon DEF OTyped, InCall, Taken
<1> QED
  BY <1>1, <1>2, <1>4, <1>6, Zenon DEF OInv

LEMMA InitOInv == Init => OInv
<1> SUFFICES ASSUME Init PROVE OInv
  OBVIOUS
<1>1. pc = "idle" /\ rx = <<>> /\ coming = <<>> /\ msg = <<>> /\ own = <<>>
      /\ pending = <<>> /\ t_id = 0 /\ nb = 0 /\ step = "function" /\ length_to_read = 0
  BY DEF Init
<1>2. OTyped
  BY <1>1, StreamAssumption, EmptySeq DEF OTyped, Steps
<1>3. Stream \in Seq(Nat) /\ Len(Stream) = 0
  <2>1. Stream = <<>> \o <<>> /\ <<>> \in Seq(Nat)
    BY <1>1 DEF Stream
  <2> QED
    BY <2>1, ConcatEmptySeq, EmptySeq
<1>4. Marks(Stream, Len(pending), t_id, own, nb)
  BY <1>3 DEF Marks, Mark
<1>5. Requested(pending, t_id, nb) /\ InCall /\ Taken
  BY <1>1 DEF Requested, InCall, Taken
<1> QED
  BY <1>2, <1>4, <1>5, Zenon DEF OInv

LEMMA NextOInv ==
    ASSUME TameContents
    PROVE  OInv /\ Recent /\ Recent' /\ [Next]_vars => OInv'
<1> SUFFICES ASSUME OInv, Recent, Recent', [Next]_vars PROVE OInv'
  OBVIOUS
<1>1. CASE \E q \in Quantities : Call(q)
  BY <1>1, OwnCall
<1>2. CASE Answer
  BY <1>2, OwnAnswer
<1>3. CASE \E k \in Pieces \cup {Len(coming)} : Arrive(k)
  <2>1. PICK k \in Pieces \cup {Len(coming)} : Arrive(k)
    BY <1>3
  <2>2. k \in Nat
    BY <2>1, LenProperties, StreamAssumption DEF OInv, OTyped
  <2> QED
    BY <2>1, <2>2, OwnArrive
<1>4. CASE Receive
  BY <1>4, OwnReceive
<1>5. CASE Timeout
  BY <1>5, OwnTimeout
<1>6. CASE Flush
  BY <1>6, OwnFlush
<1>7. CASE GetCalm \/ UNCHANGED vars
  <2>1. UNCHANGED <<pc, t_id, nb, pending, coming, rx, step, msg, length_to_read, errno, own>>
    BY <1>7 DEF GetCalm, vars
  <2>2. UNCHANGED Stream
    BY <2>1 DEF Stream
  <2>3. OTyped' = OTyped /\ InCall' = InCall /\ Taken' = Taken
    BY <2>1 DEF OTyped, InCall, Taken
  <2> QED
    BY <2>1, <2>2, <2>3, Zenon DEF OInv
<1> QED
  BY <1>1, <1>2, <1>3, <1>4, <1>5, <1>6, <1>7 DEF Next

\* Also a call that begins in the middle of another returns, when it succeeds,
\* the answer to its own request, whatever was left over, late or cut into
\* pieces (check_confirmation compares the identifier, the function and the byte
\* count): if no register hides a function code with a byte count asked for, and
\* less is under way than would bring an identifier back.
THEOREM StreamOwnBytes == ASSUME TameContents PROVE Spec /\ []Recent => []OwnBytes
<1>1. OInv => OwnBytes
  BY DEF OInv, Taken, OwnBytes
<1>2. Recent /\ OInv /\ [Next]_vars /\ Recent' => OInv'
  BY NextOInv
<1> QED
  BY <1>1, <1>2, InitOInv, PTL DEF Spec
=============================================================================
