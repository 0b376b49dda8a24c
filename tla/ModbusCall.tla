------------------------------ MODULE ModbusCall ------------------------------
(***************************************************************************)
(* What one client context promises its caller, without frames,            *)
(* identifiers, timeouts and recovery: the calls follow each other, each   *)
(* hands its request over at most once, and returns the answer to its own  *)
(* request or fails.  Of a call that failed nobody knows whether its       *)
(* request was carried out, only that it was not carried out twice.        *)
(***************************************************************************)
EXTENDS Naturals

CONSTANTS
    Requests,      \* the calls that can be made
    Oversized      \* those above a limit of the protocol

VARIABLES
    state,         \* "idle" or "open"
    req,           \* the request of the current or last call
    handed,        \* how often it was handed over
    outcome        \* what the last call returned

call_vars == <<state, req, handed, outcome>>

Nothing == [what |-> "nothing"]
Refused == [what |-> "refused"]
Failed  == [what |-> "failed"]
Answered(what, r) == [what |-> what, to |-> r]

CallInit ==
    /\ state = "idle" /\ req \in Requests
    /\ handed = 0 /\ outcome = Nothing

\* A call begins.
Begin(r) ==
    /\ state = "idle" /\ r \notin Oversized
    /\ state' = "open" /\ req' = r
    /\ handed' = 0 /\ outcome' = Nothing

\* A call that asks for too much returns at once.
Refuse(r) ==
    /\ state = "idle" /\ r \in Oversized
    /\ req' = r /\ handed' = 0 /\ outcome' = Refused
    /\ UNCHANGED state

\* The request goes out, once.
HandOver ==
    /\ state = "open" /\ handed = 0
    /\ handed' = 1
    /\ UNCHANGED <<state, req, outcome>>

\* The call returns values, or the exception the server answered with.
Succeed ==
    /\ state = "open" /\ handed = 1
    /\ \E what \in {"values", "exception"} : outcome' = Answered(what, req)
    /\ state' = "idle"
    /\ UNCHANGED <<req, handed>>

\* The call gives up, before or after its request went out.
Fail ==
    /\ state = "open"
    /\ outcome' = Failed
    /\ state' = "idle"
    /\ UNCHANGED <<req, handed>>

CallNext ==
    \/ \E r \in Requests : Begin(r) \/ Refuse(r)
    \/ HandOver \/ Succeed \/ Fail

CallSpec == CallInit /\ [][CallNext]_call_vars
=============================================================================
