--------------------------- MODULE JepsenAdapter ----------------------------
(***************************************************************************)
(* pkg/adapter/jepsen: ReadEDN turns a log of events into a history.  Each *)
(* behaviour is one call on the entries of the log; an :invoke waits until *)
(* the next event of its process says what became of it.                   *)
(***************************************************************************)
EXTENDS Integers, Sequences

CONSTANT NotAnInteger      \* any value, process or time that is not an integer

VARIABLES log,             \* argument: the entries
          i,               \* the entry being read
          pending,         \* positions of the invocations in flight
          nextID,
          ops,             \* the operations so far
          outcome          \* "reading", "history" or "error"

adapter == <<i, pending, nextID, ops, outcome>>
vars == <<log, adapter>>

Entry == log[i]

Reading == outcome = "reading" /\ i <= Len(log)

\* Entries of other processes, such as :nemesis, are skipped.
OfClient(e) == e.process # NotAnInteger

PendingOf(p) == {a \in pending : log[a].process = p}

\* buildOp: a read has the value it returned, a write the one it was called with.
ValueOf(invoke, ok) == IF invoke.f = "read" THEN ok.value ELSE invoke.value

Convertible(invoke, ok) ==
    /\ invoke.time # NotAnInteger /\ ok.time # NotAnInteger
    /\ invoke.f \in {"read", "write"}
    /\ ValueOf(invoke, ok) # NotAnInteger

\* Deviation: the operation starts when its completion is logged.
buildOpAtReturn(id, invoke, ok) ==
    [id |-> id, client |-> ok.process, type |-> invoke.f, key |-> "",
     value |-> ValueOf(invoke, ok), call |-> ok.time, return |-> ok.time]

buildOp(id, invoke, ok) ==
    [id |-> id, client |-> ok.process, type |-> invoke.f, key |-> "",
     value |-> ValueOf(invoke, ok), call |-> invoke.time, return |-> ok.time]

SkipOther ==
    /\ Reading
    /\ Entry.type # "not-a-map" /\ ~OfClient(Entry)
    /\ i' = i + 1
    /\ UNCHANGED <<log, pending, nextID, ops, outcome>>

\* Deviation: an invocation that is in flight stays the one that is waited for.
InvokeKeepsFirst ==
    /\ Reading
    /\ OfClient(Entry) /\ Entry.type = "invoke"
    /\ pending' = IF PendingOf(Entry.process) = {} THEN pending \union {i} ELSE pending
    /\ i' = i + 1
    /\ UNCHANGED <<log, nextID, ops, outcome>>

\* Deviation: invocations are listed and not looked up by their process.
InvokeKeepsAll ==
    /\ Reading
    /\ OfClient(Entry) /\ Entry.type = "invoke"
    /\ pending' = pending \union {i}
    /\ i' = i + 1
    /\ UNCHANGED <<log, nextID, ops, outcome>>

\* An invocation takes the place of one of the same process.
Invoke ==
    /\ Reading
    /\ OfClient(Entry) /\ Entry.type = "invoke"
    /\ pending' = (pending \ PendingOf(Entry.process)) \union {i}
    /\ i' = i + 1
    /\ UNCHANGED <<log, nextID, ops, outcome>>

Ok ==
    /\ Reading
    /\ OfClient(Entry) /\ Entry.type = "ok"
    /\ \E a \in PendingOf(Entry.process) :
        /\ Convertible(log[a], Entry)
        /\ pending' = pending \ {a}
        /\ ops' = Append(ops, buildOp(nextID, log[a], Entry))
    /\ nextID' = nextID + 1
    /\ i' = i + 1
    /\ UNCHANGED <<log, outcome>>

\* Deviation: an invocation that failed stays in flight.
DropKeepsPending ==
    /\ Reading
    /\ OfClient(Entry) /\ Entry.type \in {"fail", "info"}
    /\ i' = i + 1
    /\ UNCHANGED <<log, pending, nextID, ops, outcome>>

\* :fail and :info end the invocation without an operation.
Drop ==
    /\ Reading
    /\ OfClient(Entry) /\ Entry.type \in {"fail", "info"}
    /\ pending' = pending \ PendingOf(Entry.process)
    /\ i' = i + 1
    /\ UNCHANGED <<log, nextID, ops, outcome>>

Unreadable ==
    \/ Entry.type = "not-a-map"
    \/ OfClient(Entry) /\ Entry.type \notin {"invoke", "ok", "fail", "info"}
    \/ /\ OfClient(Entry) /\ Entry.type = "ok"
       /\ \A a \in PendingOf(Entry.process) : ~Convertible(log[a], Entry)

\* The first entry that cannot be read ends the call.
Refuse ==
    /\ Reading
    /\ Unreadable
    /\ outcome' = "error"
    /\ UNCHANGED <<log, i, pending, nextID, ops>>

\* Invocations still in flight are dropped.
Finish ==
    /\ outcome = "reading" /\ i > Len(log)
    /\ outcome' = "history"
    /\ UNCHANGED <<log, i, pending, nextID, ops>>

Begin == i = 1 /\ pending = {} /\ nextID = 0 /\ ops = <<>> /\ outcome = "reading"

ReadEDN == SkipOther \/ Invoke \/ Ok \/ Drop \/ Refuse \/ Finish

Spec == Begin /\ [][ReadEDN]_vars

-----------------------------------------------------------------------------
(* Properties *)

\* Event b is the first of its process after event a, and completes it.
Completes(a, b) ==
    /\ a < b
    /\ log[a].type = "invoke" /\ log[b].type = "ok"
    /\ log[a].process = log[b].process
    /\ \A c \in a + 1..b - 1 : log[c].process # log[a].process

\* The completions read so far.
OkEvents == {b \in 1..i - 1 : OfClient(log[b]) /\ log[b].type = "ok"}

\* f says of each operation which event completed it.
Pairs(f) ==
    /\ \A j, k \in DOMAIN ops : j < k => f[j] < f[k]
    /\ \A b \in OkEvents : \E k \in DOMAIN ops : f[k] = b
    /\ \A k \in DOMAIN ops : \E a \in 1..f[k] - 1 :
            Completes(a, f[k]) /\ ops[k] = buildOp(k - 1, log[a], log[f[k]])

\* Whatever the log (a process that invokes twice, events that are missing, other
\* entries in between), there is one operation for every :ok, in the order of the
\* :oks and with the ids from 0, and each is made of its :ok and of the event of
\* the same process right before it, an :invoke.
OpsArePairs == \E f \in [DOMAIN ops -> OkEvents] : Pairs(f)
=============================================================================
