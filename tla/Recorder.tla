------------------------------ MODULE Recorder ------------------------------
(***************************************************************************)
(* scripts/genhist: one run of the command.  A planted bug gives a fixed   *)
(* history; "concurrent" runs clients against a register whose reads are   *)
(* served by a follower, and records what each operation returned between  *)
(* which two moments.                                                      *)
(*                                                                         *)
(* A client is a goroutine, and so is the replication of each write, which *)
(* nothing orders.  Think times, the delay of a replication and the choice *)
(* between reading and writing are nondeterministic (the generator behind  *)
(* them is shared by the clients without a lock).                          *)
(***************************************************************************)
EXTENDS BugHistories, Checker, Patterns, Linearizability

CONSTANTS Clients,         \* natural numbers
          OpsPerClient,
          Grain            \* ticks of the clock in a microsecond

ASSUME ClientsAssumption == IsFiniteSet(Clients) /\ Clients \subseteq Nat
\* The values of two clients are 100 apart (Written), and so all different; the
\* command runs 6 operations per client.
ASSUME OpsAssumption == OpsPerClient \in 0..100
ASSUME GrainAssumption == Grain \in Nat \ {0}

VARIABLES bug,             \* the -bug flag
          outcome,         \* "running", "history" or "error"
          result,          \* the history that is written
          leader, follower,
          flying,          \* values on their way to the follower
          now,             \* ticks since t0
          pc, count, op,   \* per client: where it is, in which round, its operation
          nextID,
          recorded,        \* the operations appended by the recorder
          ran,             \* history variable: what ran, in the order of the ids
          late             \* history variable: a write returned before it was replicated

kv == <<leader, follower, flying>>
recorder == <<nextID, recorded, ran>>
vars == <<bug, outcome, result, kv, now, pc, count, op, recorder, late>>

NoHistory == Register(<<>>)

NoOp == [type |-> "read", value |-> 0, call |-> 0, return |-> 0, id |-> 0]

Written(c) == c * 100 + count[c] + 1

\* Deviation: a coarser clock.
Milliseconds(t) == t \div (2 * Grain)

Microseconds(t) == t \div Grain

Driving == bug = "concurrent" /\ outcome = "running"

\* Clock readings of different goroutines are all different, some of them only by
\* less than a microsecond.
Now == now' = now + 1

-----------------------------------------------------------------------------
(* A client *)

\* Deviation: one round too many.
CallOnceMore(c) ==
    /\ Driving /\ pc[c] = "idle" /\ count[c] <= OpsPerClient
    /\ \E type \in {"read", "write"} :
        op' = [op EXCEPT ![c] = [NoOp EXCEPT !.type = type, !.call = now,
                                             !.value = IF type = "write" THEN Written(c) ELSE 0]]
    /\ pc' = [pc EXCEPT ![c] = "called"]
    /\ Now
    /\ UNCHANGED <<bug, outcome, result, kv, count, recorder, late>>

\* call := time.Now()
Call(c) ==
    /\ Driving /\ pc[c] = "idle" /\ count[c] < OpsPerClient
    /\ \E type \in {"read", "write"} :
        op' = [op EXCEPT ![c] = [NoOp EXCEPT !.type = type, !.call = now,
                                             !.value = IF type = "write" THEN Written(c) ELSE 0]]
    /\ pc' = [pc EXCEPT ![c] = "called"]
    /\ Now
    /\ UNCHANGED <<bug, outcome, result, kv, count, recorder, late>>

\* kv.Write stores to the leader and starts the replication.
Write(c) ==
    /\ Driving /\ pc[c] = "called" /\ op[c].type = "write"
    /\ leader' = op[c].value
    /\ flying' = flying \union {op[c].value}
    /\ pc' = [pc EXCEPT ![c] = "applied"]
    /\ UNCHANGED <<bug, outcome, result, follower, now, count, op, recorder, late>>

\* Deviation: memory that was not cleared is returned.
ReadGarbage(c) ==
    /\ Driving /\ pc[c] = "called" /\ op[c].type = "read"
    /\ op' = [op EXCEPT ![c].value = 99]
    /\ pc' = [pc EXCEPT ![c] = "applied"]
    /\ UNCHANGED <<bug, outcome, result, kv, now, count, recorder, late>>

\* kv.Read
Read(c) ==
    /\ Driving /\ pc[c] = "called" /\ op[c].type = "read"
    /\ op' = [op EXCEPT ![c].value = follower]
    /\ pc' = [pc EXCEPT ![c] = "applied"]
    /\ UNCHANGED <<bug, outcome, result, kv, now, count, recorder, late>>

\* Deviation: the clock is read before the operation only.
ReturnAtCall(c) ==
    /\ Driving /\ pc[c] = "applied"
    /\ op' = [op EXCEPT ![c].return = op[c].call]
    /\ late' = (late \/ (op[c].type = "write" /\ op[c].value \in flying))
    /\ pc' = [pc EXCEPT ![c] = "returned"]
    /\ Now
    /\ UNCHANGED <<bug, outcome, result, kv, count, recorder>>

\* ret := time.Now()
Return(c) ==
    /\ Driving /\ pc[c] = "applied"
    /\ op' = [op EXCEPT ![c].return = now]
    /\ late' = (late \/ (op[c].type = "write" /\ op[c].value \in flying))
    /\ pc' = [pc EXCEPT ![c] = "returned"]
    /\ Now
    /\ UNCHANGED <<bug, outcome, result, kv, count, recorder>>

Ran(c) ==
    [client |-> c, type |-> op[c].type, value |-> op[c].value,
     call |-> op[c].call, return |-> op[c].return]

\* Deviation: the id is the number of the operations recorded so far.
TakeLength(c) ==
    /\ Driving /\ pc[c] = "returned"
    /\ op' = [op EXCEPT ![c].id = Len(recorded)]
    /\ nextID' = nextID + 1
    /\ ran' = Append(ran, Ran(c))
    /\ pc' = [pc EXCEPT ![c] = "numbered"]
    /\ UNCHANGED <<bug, outcome, result, kv, now, count, recorded, late>>

\* record: r.id.Add, without the lock
TakeID(c) ==
    /\ Driving /\ pc[c] = "returned"
    /\ op' = [op EXCEPT ![c].id = nextID]
    /\ nextID' = nextID + 1
    /\ ran' = Append(ran, Ran(c))
    /\ pc' = [pc EXCEPT ![c] = "numbered"]
    /\ UNCHANGED <<bug, outcome, result, kv, now, count, recorded, late>>

Entry(c) ==
    [id |-> op[c].id, client |-> c, type |-> op[c].type, key |-> "", value |-> op[c].value,
     call |-> Microseconds(op[c].call), return |-> Microseconds(op[c].return)]

\* Deviation: the append without the lock; two of them may store to one place.
AppendUnlocked(c) ==
    /\ Driving /\ pc[c] = "numbered"
    /\ \/ recorded' = Append(recorded, Entry(c))
       \/ recorded # <<>> /\ recorded' = [recorded EXCEPT ![Len(recorded)] = Entry(c)]
    /\ count' = [count EXCEPT ![c] = @ + 1]
    /\ pc' = [pc EXCEPT ![c] = "idle"]
    /\ UNCHANGED <<bug, outcome, result, kv, now, op, nextID, ran, late>>

\* record: the append, under the lock
AppendOp(c) ==
    /\ Driving /\ pc[c] = "numbered"
    /\ recorded' = Append(recorded, Entry(c))
    /\ count' = [count EXCEPT ![c] = @ + 1]
    /\ pc' = [pc EXCEPT ![c] = "idle"]
    /\ UNCHANGED <<bug, outcome, result, kv, now, op, nextID, ran, late>>

-----------------------------------------------------------------------------

\* The goroutine of one write; it may run on when the driver has ended.
Replicate(v) ==
    /\ v \in flying
    /\ follower' = v
    /\ flying' = flying \ {v}
    /\ UNCHANGED <<bug, outcome, result, leader, now, pc, count, op, recorder, late>>

\* wg.Wait, and what follows it.
Collect ==
    /\ Driving
    /\ \A c \in Clients : count[c] = OpsPerClient
    /\ result' = Register(sortByCall(recorded))
    /\ outcome' = "history"
    /\ UNCHANGED <<bug, kv, now, pc, count, op, recorder, late>>

\* generate, when no driver runs.
Generate ==
    /\ outcome = "running" /\ bug \in Planted
    /\ result' = generate(bug)
    /\ outcome' = "history"
    /\ UNCHANGED <<bug, kv, now, pc, count, op, recorder, late>>

UnknownBug ==
    /\ outcome = "running" /\ bug \notin Planted \union {"concurrent"}
    /\ outcome' = "error"
    /\ UNCHANGED <<bug, result, kv, now, pc, count, op, recorder, late>>

Init ==
    /\ bug \in Planted \union {"concurrent", "doesnotexist"}
    /\ outcome = "running"
    /\ result = NoHistory
    /\ leader = 0 /\ follower = 0 /\ flying = {}
    /\ now = 0
    /\ pc = [c \in Clients |-> "idle"]
    /\ count = [c \in Clients |-> 0]
    /\ op = [c \in Clients |-> NoOp]
    /\ nextID = 0 /\ recorded = <<>> /\ ran = <<>>
    /\ late = FALSE

ClientStep(c) == Call(c) \/ Write(c) \/ Read(c) \/ Return(c) \/ TakeID(c) \/ AppendOp(c)

Next ==
    \/ \E c \in Clients : ClientStep(c)
    \/ \E v \in flying : Replicate(v)
    \/ Collect \/ Generate \/ UnknownBug

Spec == Init /\ [][Next]_vars

-----------------------------------------------------------------------------
(* Properties *)

TypeOK ==
    /\ outcome \in {"running", "history", "error"}
    /\ leader \in Nat /\ follower \in Nat /\ flying \subseteq Nat
    /\ now \in Nat /\ nextID \in Nat /\ late \in BOOLEAN
    /\ \A c \in Clients :
        /\ pc[c] \in {"idle", "called", "applied", "returned", "numbered"}
        /\ count[c] \in 0..OpsPerClient
        /\ op[c].call \in 0..now /\ op[c].return \in 0..now
    /\ Len(ran) = nextID

\* Ids are given out once, in whatever order the goroutines take them and append.
IdsAreDistinct ==
    /\ \A a, b \in DOMAIN recorded : recorded[a].id = recorded[b].id => a = b
    /\ \A a \in DOMAIN recorded : recorded[a].id \in 0..nextID - 1

\* A write of v has started before t: it has an id, or is on its way to it.
Started(v, t) ==
    \/ \E k \in DOMAIN ran : ran[k].type = "write" /\ ran[k].value = v /\ ran[k].call < t
    \/ \E c \in Clients :
        /\ pc[c] \in {"called", "applied", "returned"}
        /\ op[c].type = "write" /\ op[c].value = v /\ op[c].call < t

\* However late and in whatever order the follower is told, a read that ran
\* returned the initial value or that of a write that had started when it returned.
NoReadFromTheFuture ==
    \A k \in DOMAIN ran :
        ran[k].type = "read" => ran[k].value = 0 \/ Started(ran[k].value, ran[k].return)

Driven == bug = "concurrent" /\ outcome = "history"

\* The history has every operation that ran, with its own id, client, kind and
\* value, and is one that can be read back.
HistoryIsWhatRan ==
    Driven =>
        /\ Valid(result)
        /\ Len(result.ops) = Len(ran)
        /\ \A e \in OpsOf(result) :
            LET r == ran[e.id + 1]
            IN  e.client = r.client /\ e.type = r.type /\ e.value = r.value
        /\ \A a, b \in DOMAIN result.ops : a < b => result.ops[a].call <= result.ops[b].call

\* Cutting times to microseconds never puts two operations into an order they did
\* not have, and forgets an order only of operations less than a microsecond apart.
TruncationRelaxesOrder ==
    \A a, b \in OpsOf(result) : Driven =>
        /\ Precedes(a, b) => ran[a.id + 1].return < ran[b.id + 1].call
        /\ ran[a.id + 1].return + Grain <= ran[b.id + 1].call => Precedes(a, b)

\* When every write was replicated before it returned, the follower is a
\* correct register, and its recorded history must not be rejected.
NoFalseAlarm == Driven /\ ~late => Linearizable(result)

\* What the follower does wrong is being late: no rejection is explained as a value
\* from nowhere or from the future.  (Not every rejection is explained: two reads may
\* each be in a partial linearization without the other, and then no operation is
\* blocked; and with three clients a blocked read of a value that a concurrent write
\* replaced fits no pattern either.)
OnlyStaleness ==
    Driven =>
        \A trace \in Check(result) :
            {m \in Range(All) : Match(m, trace) # {}}
                \subseteq {"stale_read", "lost_update", "non_monotonic_read"}
=============================================================================
