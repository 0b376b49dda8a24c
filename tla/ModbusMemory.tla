----------------------------- MODULE ModbusMemory -----------------------------
(***************************************************************************)
(* What clients and a server promise together, without messages: cells     *)
(* that every call reads and writes in one step somewhere between its      *)
(* beginning and its return.  A call that fails may have taken effect, may *)
(* not have, or may still do so once, at any later time: then it is a      *)
(* `stray'.                                                                *)
(***************************************************************************)
EXTENDS Naturals, Sequences

CONSTANTS
    Clients,
    Cells,         \* the cells there are
    Ops,           \* the calls that can be made
    Writes(_),     \* the cells an operation writes, with their values
    Reads(_)       \* the cells an operation reads, in the order of its answer

VARIABLES
    cells,         \* the value of each cell
    n,             \* how many calls each client has begun
    call,          \* the call under way: its state, operation and answer
    result,        \* what the last call of each client returned
    stray          \* failed calls that have not taken effect yet

vars == <<cells, n, call, result, stray>>

Idle    == [state |-> "idle"]
Open(op) == [state |-> "open", op |-> op]
Done(op, answer) == [state |-> "done", op |-> op, answer |-> answer]

Failed  == [outcome |-> "failed"]
Returned(answer) == [outcome |-> "returned", answer |-> answer]

\* A call that names a cell there is none of is refused, without an effect.
Legal(op) ==
    /\ DOMAIN Writes(op) \subseteq Cells
    /\ \A i \in DOMAIN Reads(op) : Reads(op)[i] \in Cells

After(op) ==
    IF Legal(op)
      THEN [x \in Cells |-> IF x \in DOMAIN Writes(op) THEN Writes(op)[x] ELSE cells[x]]
      ELSE cells

\* The answer shows the cells as the call leaves them.
AnswerTo(op) ==
    IF Legal(op)
      THEN [refused |-> FALSE, values |-> [i \in DOMAIN Reads(op) |-> After(op)[Reads(op)[i]]]]
      ELSE [refused |-> TRUE, values |-> <<>>]

Init ==
    /\ cells = [x \in Cells |-> 0]
    /\ n = [c \in Clients |-> 0]
    /\ call = [c \in Clients |-> Idle]
    /\ result = [c \in Clients |-> Failed]
    /\ stray = {}

Begin(c, op) ==
    /\ call[c] = Idle
    /\ n' = [n EXCEPT ![c] = @ + 1]
    /\ call' = [call EXCEPT ![c] = Open(op)]
    /\ UNCHANGED <<cells, result, stray>>

Effect(c) ==
    /\ call[c].state = "open"
    /\ cells' = After(call[c].op)
    /\ call' = [call EXCEPT ![c] = Done(call[c].op, AnswerTo(call[c].op))]
    /\ UNCHANGED <<n, result, stray>>

Return(c) ==
    /\ call[c].state = "done"
    /\ result' = [result EXCEPT ![c] = Returned(call[c].answer)]
    /\ call' = [call EXCEPT ![c] = Idle]
    /\ UNCHANGED <<cells, n, stray>>

Fail(c) ==
    /\ call[c] # Idle
    /\ result' = [result EXCEPT ![c] = Failed]
    /\ call' = [call EXCEPT ![c] = Idle]
    /\ \/ UNCHANGED stray
       \/ /\ call[c].state = "open"
          /\ stray' = stray \cup {[client |-> c, n |-> n[c], op |-> call[c].op]}
    /\ UNCHANGED <<cells, n>>

StrayEffect(s) ==
    /\ cells' = After(s.op)
    /\ stray' = stray \ {s}
    /\ UNCHANGED <<n, call, result>>

StrayLost ==
    /\ stray' \in SUBSET stray
    /\ UNCHANGED <<cells, n, call, result>>

Next ==
    \/ \E c \in Clients :
          \/ \E op \in Ops : Begin(c, op)
          \/ Effect(c) \/ Return(c) \/ Fail(c)
    \/ \E s \in stray : StrayEffect(s)
    \/ StrayLost

Spec == Init /\ [][Next]_vars
=============================================================================
