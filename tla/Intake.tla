------------------------------- MODULE Intake -------------------------------
(***************************************************************************)
(* From an execution to a history: a test runs clients against a register, *)
(* stops them at some moment, and hands what it has to one of the front    *)
(* ends of whynot: the log to ReadEDN, the operations that returned to     *)
(* FromOperations, or the same operations call by call to a Builder.       *)
(***************************************************************************)
EXTENDS Execution, Linearizability, SequencesExt

CONSTANTS Fronts,          \* of "jepsen", "porcupine", "builder"
          Taggings         \* ways to give metadata: functions of the position

VARIABLES start,           \* the value the register had at first
          damage,          \* [kind, at]: what happened to the log, and at which event
          front,           \* where the test went, "none" while it runs
          input,           \* what it handed over
          translator,
          i, pending, nextID, ops, outcome,   \* ReadEDN, FromOperations
          init, built                         \* with ops and nextID: Builder

conversion == <<input, translator, i, pending, nextID, ops, outcome, init, built>>
vars == <<execution, start, damage, front, conversion>>

Jepsen == INSTANCE JepsenAdapter WITH log <- input
Adapter == INSTANCE PorcupineAdapter
Test == INSTANCE Builder

Running == front = "none"

\* The init that the caller passes: an empty register has none.
Given == IF start = NotAnInteger THEN 0 ELSE start

AllIntegers == \A d \in Range(completed) : d.value # NotAnInteger

Execute ==
    /\ Running
    /\ ExecutionNext
    /\ UNCHANGED <<start, damage, front, conversion>>

-----------------------------------------------------------------------------

\* A test makes all its calls, or none; some may be in flight when it stops.
HandOver(f) ==
    /\ Running
    /\ Calls \in {0, MaxOps}
    /\ front' = f
    /\ outcome' = "reading"
    /\ UNCHANGED <<execution, start, i, pending, nextID, ops, init, built>>

\* Entries of others: a fault that :nemesis logged, an event of another process
\* that is none of those known, something that is not a map.
Foreign ==
    {Event("info", NotAnInteger, "partition", NotAnInteger),
     Event("crash", MaxOps, "write", 1),
     [Event("invoke", NotAnInteger, "read", 1) EXCEPT !.type = "not-a-map"]}

Key == "x"

Undamaged == [kind |-> "none", at |-> 0]

\* What is left of the log has all its events; or one is lost, or has no time;
\* or there is a foreign entry in the midst of it.
HandLog ==
    /\ HandOver("jepsen")
    /\ UNCHANGED translator
    /\ \/ input' = log /\ UNCHANGED damage
       \/ \E k \in DOMAIN log :
            \/ damage' = [kind |-> "lost", at |-> k] /\ input' = RemoveAt(log, k)
            \/ damage' = [kind |-> "untimed", at |-> k]
               /\ input' = [log EXCEPT ![k].time = NotAnInteger]
       \/ LET k == Len(log) \div 2 + 1
          IN  \E e \in Foreign :
                damage' = [kind |-> "foreign", at |-> k] /\ input' = InsertAt(log, k, e)

\* The operations are those of a register or of one key of a store, which is empty
\* at first; the translator need not be the one for them.
HandOperations ==
    /\ HandOver("porcupine")
    /\ \E tag \in Taggings, model \in {"register", "kv"} :
        /\ model = "kv" => start = NotAnInteger
        /\ input' = [k \in DOMAIN completed |->
                    [model |-> model, key |-> Key,
                     client |-> completed[k].client, type |-> completed[k].type,
                     value |-> completed[k].value, call |-> completed[k].call,
                     return |-> completed[k].return, metadata |-> tag[k]]]
    /\ translator' \in {"register", "kv", "nil"}
    /\ UNCHANGED damage

\* Test code has no value for a read that returned none.
StartBuilding ==
    /\ AllIntegers
    /\ HandOver("builder")
    /\ input' = completed
    /\ UNCHANGED <<translator, damage>>

ReadLog ==
    /\ front = "jepsen"
    /\ Jepsen!ReadEDN
    /\ UNCHANGED <<execution, start, damage, front, translator, init, built>>

ReadOperations ==
    /\ front = "porcupine"
    /\ Adapter!FromOperations
    /\ UNCHANGED <<execution, start, damage, front, pending, nextID, init, built>>

-----------------------------------------------------------------------------
(* The calls of the builder *)

Building == front = "builder" /\ outcome = "reading"

BuilderInit ==
    /\ Building /\ init # Given
    /\ Test!SetInit(Given)
    /\ UNCHANGED <<execution, start, damage, front, input, translator, i, pending, outcome>>

\* By a method of its own, or by Op with an id of the test's choice.
BuilderAdd ==
    /\ Building /\ init = Given /\ i <= Len(input)
    /\ LET d == input[i]
       IN  \/ d.type = "write" /\ Test!Write(d.client, "", d.value, d.call, d.return)
           \/ d.type = "read" /\ Test!Read(d.client, "", d.value, d.call, d.return)
           \/ \E id \in {0, 2} :
                Test!Op(Test!Entry(id, d.client, d.type, "", d.value, d.call, d.return))
    /\ i' = i + 1
    /\ UNCHANGED <<execution, start, damage, front, input, translator, pending, outcome>>

\* A history may be built before the last operation, and again after it.
BuilderBuild ==
    /\ Building /\ init = Given
    /\ Test!Build
    /\ outcome' = IF i > Len(input) THEN "history" ELSE outcome
    /\ UNCHANGED <<execution, start, damage, front, input, translator, i, pending>>

-----------------------------------------------------------------------------

Init ==
    /\ ExecutionInit
    /\ start = register
    /\ damage = Undamaged
    /\ front = "none"
    /\ input = <<>> /\ translator = "register"
    /\ i = 1 /\ pending = {} /\ outcome = "running"
    /\ Test!New

Convert == ReadLog \/ ReadOperations \/ BuilderInit \/ BuilderAdd \/ BuilderBuild

Next ==
    \/ Execute
    \/ "jepsen" \in Fronts /\ HandLog
    \/ "porcupine" \in Fronts /\ HandOperations
    \/ "builder" \in Fronts /\ StartBuilding
    \/ Convert

Spec == Init /\ [][Next]_vars

-----------------------------------------------------------------------------
(* Properties *)

TypeOK ==
    /\ start \in {Initial, NotAnInteger}
    /\ damage.kind \in {"none", "lost", "untimed", "foreign"}
    /\ front \in Fronts \union {"none"}
    /\ Running <=> outcome = "running"
    /\ outcome \in {"running", "reading", "history", "error"}
    /\ pending \subseteq DOMAIN input
    /\ \A a, b \in pending : input[a].process = input[b].process => a = b
    /\ nextID \in Nat /\ (front = "porcupine" \/ nextID = Len(ops))

Made == outcome = "history"

Translator(name) == front = "porcupine" /\ translator = name

History ==
    [model |-> IF Translator("kv") THEN "kv" ELSE "register",
     init |-> Given,
     ops |-> IF front = "builder" THEN built ELSE ops]

\* An operation without its id and key.
Truth(op) ==
    [client |-> op.client, type |-> op.type, value |-> op.value,
     call |-> op.call, return |-> op.return]

Truths(s) == [k \in DOMAIN s |-> Truth(s[k])]

Damaged(kind) == damage.kind = kind

\* The operations whose :ok is in the log that was read.
Kept ==
    IF Damaged("lost") /\ log[damage.at].type = "ok"
    THEN RemoveAt(completed, Cardinality({k \in 1..damage.at : log[k].type = "ok"}))
    ELSE completed

\* A history that is made has the operations that returned, each with the
\* interval, value and client it had, none missing and none made up; in the order
\* of completion or, from FromOperations, of the calls and with the key, if it has
\* one.  A history built before the end has the first of them.  Whichever event a
\* log has lost, an :ok is never taken for the completion of another operation.
HistoryIsWhatCompleted ==
    /\ Made => Range(Truths(History.ops)) = Range(Kept)
    /\ Made => Len(History.ops) = Len(Kept)
    /\ Made /\ front # "porcupine" => Truths(History.ops) = Kept
    /\ Made /\ front = "porcupine" =>
            /\ \A a, b \in DOMAIN ops : a < b => ops[a].call <= ops[b].call
            /\ \A op \in Range(ops) : op.key = IF translator = "kv" THEN Key ELSE ""
    /\ front = "builder" => IsPrefix(Truths(built), completed)

\* The operations of a log are its :oks, each with the :invoke right before it (see
\* JepsenAdapter), also in logs that lost an event.
OpsArePairs == Made /\ front = "jepsen" => Jepsen!OpsArePairs

\* The k-th event begins or ends an operation that returned.
OfCompleted(k) ==
    \/ log[k].type = "ok"
    \/ /\ log[k].type = "invoke"
       /\ \E b \in k + 1..Len(log) :
            /\ log[b].type = "ok" /\ log[b].process = log[k].process
            /\ \A c \in k + 1..b - 1 : log[c].process # log[k].process

\* The log has the end of an operation without its beginning, without a time, or an
\* entry that has no meaning.
LogIsUnreadable ==
    /\ front = "jepsen"
    /\ \/ Damaged("lost") /\ log[damage.at].type = "invoke" /\ OfCompleted(damage.at)
       \/ Damaged("untimed") /\ OfCompleted(damage.at)
       \/ Damaged("foreign") /\ input[damage.at].type # "info"

DuplicateIds ==
    /\ front = "porcupine"
    /\ \E a, b \in DOMAIN input : a # b /\ Adapter!IdOf(a) = Adapter!IdOf(b)

WrongTranslator ==
    front = "porcupine" /\ \E k \in DOMAIN input : input[k].model # translator

\* Correct input is never refused.  Operations that are neither reads nor writes,
\* reads without a value, a log that cannot be read, ambiguous ids and operations of
\* another model than the translator's always are.
RefusedForAReason ==
    front \in {"jepsen", "porcupine"} /\ outcome \in {"history", "error"} =>
        (outcome = "error" <=>
            \/ \E d \in Range(Kept) : d.type = "cas" \/ d.value = NotAnInteger
            \/ LogIsUnreadable \/ DuplicateIds
            \/ Translator("nil") \/ WrongTranslator)

\* The front ends do not validate, but what they make of an execution is what
\* History.validate accepts: ids are distinct, calls precede returns.
MadeIsValid == Made => Valid(History)

\* An operation took effect that the history does not have, or that the
\* models do not know.
InDoubt ==
    \/ \E c \in Clients : doing[c].applied /\ doing[c].f # "read"
    \/ \E d \in Range(completed) : d.type = "cas"

\* The register is atomic, so whatever the history it must not be rejected:
\* the conversion keeps intervals, values and the initial value.  Exempt are
\* executions with an operation in doubt and logs that lost an event.
NoFalseAlarm == Made /\ ~InDoubt /\ ~Damaged("lost") => Linearizable(History)

\* "Neither belongs on the linearization timeline" (jepsen.go): once every
\* operation has ended, by :ok, :fail or :info, those that ended by :ok stand on
\* their own.
CompletedIsEnough ==
    /\ Made /\ Damaged("none")
    /\ \A c \in Clients : doing[c] = Idle \/ doing[c].given_up
    => Linearizable(History)
=============================================================================
