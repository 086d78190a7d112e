----------------------------- MODULE Execution ------------------------------
(***************************************************************************)
(* What a history is a history of: clients that call an atomic register,   *)
(* as the tests do from which the front ends of whynot get their           *)
(* operations.  An operation takes effect at one moment between its call   *)
(* and its return; one that the client gave up on (:info) may take effect  *)
(* at any later moment or never.  Not part of the repository.              *)
(*                                                                         *)
(* The log has the events as Jepsen records them; completed is the truth   *)
(* about the operations that returned, in the order of their returns.      *)
(***************************************************************************)
EXTENDS Integers, Sequences, FiniteSets

CONSTANTS Clients,         \* the processes of the log, none of them NotAnInteger
          Kinds,           \* the operations they call
          Initial,         \* the value of a register that is not empty at first
          MaxOps,          \* bound on the calls of one execution
          Resolution       \* events per tick of the clock: beyond 1 there are ties

\* Any value that is not an integer: nil, a missing field, a keyword.
NotAnInteger == -1

ASSUME ExecutionAssumption ==
    /\ NotAnInteger \notin Clients
    /\ Initial \in Nat /\ MaxOps \in Nat /\ Resolution \in Nat \ {0}

ASSUME KindsAssumption == Kinds \subseteq {"read", "write", "cas"}

VARIABLES register,        \* its value
          doing,           \* per client: the operation it has called
          log,             \* the events so far
          completed        \* the operations that returned

execution == <<register, doing, log, completed>>

Idle == [f |-> "none", value |-> NotAnInteger, call |-> 0, applied |-> FALSE, given_up |-> FALSE]

Clock == Len(log) \div Resolution

Event(type, process, f, value) ==
    [type |-> type, process |-> process, f |-> f, value |-> value, time |-> Clock]

Logged(e) == log' = Append(log, e)

Calls == Cardinality({k \in DOMAIN log : log[k].type = "invoke"})

\* Every write has a value of its own; a read is called without one.
Invoke(c, f) ==
    /\ doing[c] = Idle
    /\ Calls < MaxOps
    /\ LET value == IF f = "read" THEN NotAnInteger ELSE Calls + 1
       IN  /\ doing' = [doing EXCEPT ![c] = [Idle EXCEPT !.f = f, !.value = value, !.call = Clock]]
           /\ Logged(Event("invoke", c, f, value))
    /\ UNCHANGED <<register, completed>>

\* A compare-and-set that does not find Initial changes nothing.
TakeEffect(c) ==
    /\ doing[c].f # "none" /\ ~doing[c].applied
    /\ IF doing[c].f = "read"
       THEN /\ doing' = [doing EXCEPT ![c].applied = TRUE, ![c].value = register]
            /\ UNCHANGED register
       ELSE /\ doing' = [doing EXCEPT ![c].applied = TRUE]
            /\ register' = IF doing[c].f = "write" \/ register = Initial THEN doing[c].value ELSE register
    /\ UNCHANGED <<log, completed>>

Return(c) ==
    /\ doing[c].applied /\ ~doing[c].given_up
    /\ Logged(Event("ok", c, doing[c].f, doing[c].value))
    /\ completed' = Append(completed, [client |-> c, type |-> doing[c].f, value |-> doing[c].value,
                                       call |-> doing[c].call, return |-> Clock])
    /\ doing' = [doing EXCEPT ![c] = Idle]
    /\ UNCHANGED register

\* The operation certainly did not happen.
Fail(c) ==
    /\ doing[c].f # "none" /\ ~doing[c].applied /\ ~doing[c].given_up
    /\ Logged(Event("fail", c, doing[c].f, doing[c].value))
    /\ doing' = [doing EXCEPT ![c] = Idle]
    /\ UNCHANGED <<register, completed>>

\* The client does not know and calls no more; the operation stays in flight.
GiveUp(c) ==
    /\ doing[c].f # "none" /\ ~doing[c].given_up
    /\ Logged(Event("info", c, doing[c].f, doing[c].value))
    /\ doing' = [doing EXCEPT ![c].given_up = TRUE]
    /\ UNCHANGED <<register, completed>>

\* A register starts empty or with a value.
ExecutionInit ==
    /\ register \in {Initial, NotAnInteger}
    /\ doing = [c \in Clients |-> Idle]
    /\ log = <<>>
    /\ completed = <<>>

ExecutionNext ==
    \/ \E c \in Clients, f \in Kinds : Invoke(c, f)
    \/ \E c \in Clients : TakeEffect(c) \/ Return(c) \/ Fail(c) \/ GiveUp(c)
=============================================================================
